---- MODULE Spec2Model ----
(***************************************************************************)
(* Menu item image pipeline of the White Raven site: MenuItem.save and     *)
(* MenuItem.delete (menu/models.py), MenuImageField.pre_save               *)
(* (menu/fields.py) and the helpers of menu/utils/image_processing.py,     *)
(* over a flat default_storage namespace.                                  *)
(*                                                                         *)
(* A file name is a record [root, ext]: os.path.splitext(name) is          *)
(* (root, "." + ext).  Storage maps the names that exist to a description  *)
(* of what the file holds.  Every handler is one action; the storage calls *)
(* it makes are recorded, in order, in last.log.                           *)
(***************************************************************************)
EXTENDS Integers, Sequences, FiniteSets, TLC

VARIABLES db, storage, generation, faulted, last, px, call, tables, cache,
          procs, clock

vars == <<db, storage, generation, faulted, last, px, call, tables, cache,
         procs, clock>>

(***************************************************************************)
(* Bounds of the model.                                                    *)
(***************************************************************************)
MaxItems == 2
MaxGenerations == 2
MaxFaults == 1

Pks == 1..MaxItems

(***************************************************************************)
(* File names.                                                             *)
(***************************************************************************)
Name(root, ext) == [root |-> root, ext |-> ext]

NoName == Name("", "")

splitext_root(n) == n.root

(* str.lower() on the extensions that occur *)
Lower(e) ==
  CASE e = "JPG" -> "jpg"
    [] e = "Jpg" -> "jpg"
    [] e = "JPEG" -> "jpeg"
    [] e = "PNG" -> "png"
    [] e = "WEBP" -> "webp"
    [] e = "GIF" -> "gif"
    [] OTHER -> e

(***************************************************************************)
(* Program constants (menu/utils/image_processing.py).                     *)
(***************************************************************************)
MENU_IMAGE_SIZES == <<"thumbnail", "card", "detail">>

ALLOWED_FORMATS == {"JPEG", "PNG", "WEBP"}

MAX_FILE_SIZE == 5 * 1024 * 1024

max_dimension == 4096

allowed_extensions == {"jpg", "jpeg", "png", "webp"}

(* the catalog with 3 entries, as in MENU_IMAGE_SIZES *)
enhanced_sizes_short ==
  << [name |-> "thumbnail", w |-> 150, h |-> 150],
     [name |-> "card", w |-> 400, h |-> 300],
     [name |-> "detail", w |-> 800, h |-> 600] >>

enhanced_sizes ==
  << [name |-> "thumbnail", w |-> 150, h |-> 150],
     [name |-> "card", w |-> 400, h |-> 300],
     [name |-> "detail", w |-> 800, h |-> 600],
     [name |-> "hero", w |-> 1200, h |-> 900] >>

formats(size_name) ==
  LET webp_quality == IF size_name = "thumbnail" THEN 75
                      ELSE IF size_name = "hero" THEN 90 ELSE 85
      jpeg_quality == IF size_name = "thumbnail" THEN 80 ELSE 85
  IN << [ext |-> "webp", format |-> "WebP", quality |-> webp_quality],
        [ext |-> "jpg", format |-> "JPEG", quality |-> jpeg_quality] >>

NumFormats == 2

NumVariants == Len(enhanced_sizes) * NumFormats

(***************************************************************************)
(* What a stored file holds.  kind is "raw" (the bytes of an upload),      *)
(* "variant" (written by create_multiple_sizes); pk and gen say for which  *)
(* menu item and by which upload or generation it was written; valid says  *)
(* whether PIL can decode it.                                              *)
(***************************************************************************)
RawContent(pk, gen, valid) ==
  [kind |-> "raw", pk |-> pk, gen |-> gen, size |-> "", format |-> "",
   valid |-> valid]

VariantContent(pk, gen, size_name, format) ==
  [kind |-> "variant", pk |-> pk, gen |-> gen, size |-> size_name,
   format |-> format, valid |-> TRUE]

(***************************************************************************)
(* default_storage (FileSystemStorage).  A handler threads a context       *)
(* st = [fs, calls, log]; the storage calls whose index is in faults       *)
(* raise.                                                                  *)
(***************************************************************************)
Put(fs, n, c) == [m \in DOMAIN fs \cup {n} |-> IF m = n THEN c ELSE fs[m]]

Remove(fs, n) == [m \in DOMAIN fs \ {n} |-> fs[m]]

EmptyFs == [m \in {} |-> RawContent(0, 0, FALSE)]

alternative_name(n, i) == Name(n.root \o "_" \o "r" \o ToString(i), n.ext)

(* Storage.get_available_name: the name itself when free, otherwise       *)
(* root_<random>.ext for a random suffix that is free                      *)
get_available_name(fs, n) ==
  IF n \notin DOMAIN fs THEN n
  ELSE LET free == {i \in 1..(Cardinality(DOMAIN fs) + 1) :
                       alternative_name(n, i) \notin DOMAIN fs}
       IN alternative_name(n, CHOOSE i \in free : \A j \in free : i <= j)

Event(op, n, ok, hit, kind) ==
  [op |-> op, name |-> n, ok |-> ok, hit |-> hit, kind |-> kind]

Called(st, ev) == [st EXCEPT !.calls = @ + 1, !.log = Append(@, ev)]

(* a storage that writes under the name it is given, over the file there *)
storage_save_overwrite(st, n, c, faults) ==
  IF st.calls \in faults
  THEN [st |-> Called(st, Event("write", n, FALSE, FALSE, c.kind)),
        raised |-> TRUE, path |-> NoName]
  ELSE [st |-> [Called(st, Event("write", n, TRUE, TRUE, c.kind))
                  EXCEPT !.fs = Put(st.fs, n, c)],
        raised |-> FALSE, path |-> n]

storage_save(st, n, c, faults) ==
  IF st.calls \in faults
  THEN [st |-> Called(st, Event("write", n, FALSE, FALSE, c.kind)),
        raised |-> TRUE, path |-> NoName]
  ELSE LET p == get_available_name(st.fs, n)
       IN [st |-> [Called(st, Event("write", p, TRUE, TRUE, c.kind))
                     EXCEPT !.fs = Put(st.fs, p, c)],
           raised |-> FALSE, path |-> p]

storage_delete(st, n, faults) ==
  IF st.calls \in faults
  THEN [st |-> Called(st, Event("delete", n, FALSE, FALSE, "")), raised |-> TRUE]
  ELSE [st |-> [Called(st, Event("delete", n, TRUE, n \in DOMAIN st.fs, ""))
                  EXCEPT !.fs = Remove(st.fs, n)],
        raised |-> FALSE]

storage_exists(st, n, faults) ==
  IF st.calls \in faults
  THEN [st |-> Called(st, Event("exists", n, FALSE, FALSE, "")),
        raised |-> TRUE, value |-> FALSE]
  ELSE [st |-> Called(st, Event("exists", n, TRUE, n \in DOMAIN st.fs, "")),
        raised |-> FALSE, value |-> n \in DOMAIN st.fs]

(* the files a log says were written, and those it says were removed *)
Written(log) ==
  {log[i].name : i \in {j \in 1..Len(log) : log[j].op = "write" /\ log[j].ok}}

Deleted(log) ==
  {log[i].name : i \in {j \in 1..Len(log) :
                          log[j].op = "delete" /\ log[j].ok /\ log[j].hit}}

DeleteFailed(log) ==
  {log[i].name : i \in {j \in 1..Len(log) :
                          log[j].op = "delete" /\ ~log[j].ok}}

(***************************************************************************)
(* validate_image: the first check that fails decides the error.           *)
(* An upload f is [name, size, format, width, height]; format "" stands    *)
(* for bytes that Image.open cannot decode.                                *)
(***************************************************************************)
(* the limits taken as exclusive *)
validate_image_exclusive(f) ==
  IF f.size >= MAX_FILE_SIZE THEN [ok |-> FALSE, err |-> "too_large"]
  ELSE IF Lower(f.name.ext) \notin allowed_extensions
       THEN [ok |-> FALSE, err |-> "extension"]
  ELSE IF f.format = "" THEN [ok |-> FALSE, err |-> "corrupted"]
  ELSE IF f.format \notin ALLOWED_FORMATS
       THEN [ok |-> FALSE, err |-> "format"]
  ELSE IF f.width >= max_dimension \/ f.height >= max_dimension
       THEN [ok |-> FALSE, err |-> "dimensions"]
  ELSE [ok |-> TRUE, err |-> ""]

(* the extension compared as it is written, after the bytes were decoded *)
validate_image_decode_first(f) ==
  IF f.size > MAX_FILE_SIZE THEN [ok |-> FALSE, err |-> "too_large"]
  ELSE IF f.format = "" THEN [ok |-> FALSE, err |-> "corrupted"]
  ELSE IF f.name.ext \notin allowed_extensions
       THEN [ok |-> FALSE, err |-> "extension"]
  ELSE IF f.format \notin ALLOWED_FORMATS
       THEN [ok |-> FALSE, err |-> "format"]
  ELSE IF f.width > max_dimension \/ f.height > max_dimension
       THEN [ok |-> FALSE, err |-> "dimensions"]
  ELSE [ok |-> TRUE, err |-> ""]

validate_image(f) ==
  IF f.size > MAX_FILE_SIZE THEN [ok |-> FALSE, err |-> "too_large"]
  ELSE IF Lower(f.name.ext) \notin allowed_extensions
       THEN [ok |-> FALSE, err |-> "extension"]
  ELSE IF f.format = "" THEN [ok |-> FALSE, err |-> "corrupted"]
  ELSE IF f.format \notin ALLOWED_FORMATS
       THEN [ok |-> FALSE, err |-> "format"]
  ELSE IF f.width > max_dimension \/ f.height > max_dimension
       THEN [ok |-> FALSE, err |-> "dimensions"]
  ELSE [ok |-> TRUE, err |-> ""]

(***************************************************************************)
(* A Python dict as the sequence of its items in insertion order:          *)
(* d[key] = val replaces the value of a key that is present.               *)
(***************************************************************************)
DictKeys(d) == {d[i].key : i \in 1..Len(d)}

DictSet(d, key, val) ==
  IF key \in DictKeys(d)
  THEN [i \in 1..Len(d) |-> IF d[i].key = key THEN val ELSE d[i]]
  ELSE Append(d, val)

DictPaths(d) == {d[i].path : i \in 1..Len(d)}

(***************************************************************************)
(* create_multiple_sizes(image_file, base_name).                           *)
(* inp = [readable, encFail, faults]: whether Image.open(image_file)       *)
(* succeeds, the index (1..NumVariants, 0 for none) of the variant whose   *)
(* encoding raises, and the storage calls that raise.                      *)
(***************************************************************************)
(* the loop body without the format in the key: a later format replaces   *)
(* the entry of an earlier one                                            *)
results_key_by_size(size_name, ext) == size_name

results_key(size_name, ext) == size_name \o "_" \o ext

RECURSIVE cms_loop(_, _, _, _, _, _)
cms_loop(i, st, results, base_name, tag, inp) ==
  IF i > NumVariants
  THEN [st |-> st, results |-> results, failed |-> FALSE]
  ELSE LET sz == enhanced_sizes[((i - 1) \div NumFormats) + 1]
           fm == formats(sz.name)[((i - 1) % NumFormats) + 1]
           filename == Name(base_name \o "_" \o sz.name, fm.ext)
           w == storage_save(st, filename,
                             VariantContent(tag.pk, tag.gen, sz.name, fm.format),
                             inp.faults)
           entry == [key |-> results_key(sz.name, fm.ext), path |-> w.path,
                     format |-> fm.format, size |-> <<sz.w, sz.h>>,
                     quality |-> fm.quality]
       IN IF inp.encFail = i
          THEN [st |-> st, results |-> results, failed |-> TRUE]
          ELSE IF w.raised
          THEN [st |-> w.st, results |-> results, failed |-> TRUE]
          ELSE cms_loop(i + 1, w.st, DictSet(results, entry.key, entry),
                        base_name, tag, inp)

(* an except clause that forgets the files already created *)
cms_discard_nothing(j, st, results, faults) == st

(* the except clause: delete every path in results, each delete guarded   *)
(* by its own try/except/pass                                             *)
RECURSIVE cms_discard(_, _, _, _)
cms_discard(j, st, results, faults) ==
  IF j > Len(results) THEN st
  ELSE cms_discard(j + 1, storage_delete(st, results[j].path, faults).st,
                   results, faults)

create_multiple_sizes(st, base_name, tag, inp) ==
  IF ~inp.readable
  THEN [st |-> st, results |-> <<>>, raised |-> TRUE]
  ELSE LET r == cms_loop(1, st, <<>>, base_name, tag, inp)
       IN IF r.failed
          THEN [st |-> cms_discard(1, r.st, r.results, inp.faults),
                results |-> <<>>, raised |-> TRUE]
          ELSE [st |-> r.st, results |-> r.results, raised |-> FALSE]

(***************************************************************************)
(* cleanup_old_images(old_image_path): the main image, then                *)
(* <root>_<size>.jpg for the sizes of MENU_IMAGE_SIZES; the first storage  *)
(* call that raises ends it, and the exception is logged, not re-raised.   *)
(***************************************************************************)
cleanup_targets(old_image_path) ==
  <<old_image_path>> \o
  [i \in 1..Len(MENU_IMAGE_SIZES) |->
     Name(splitext_root(old_image_path) \o "_" \o MENU_IMAGE_SIZES[i], "jpg")]

RECURSIVE cleanup_loop(_, _, _, _)
cleanup_loop(i, st, targets, faults) ==
  IF i > Len(targets) THEN [st |-> st, failed |-> FALSE]
  ELSE LET e == storage_exists(st, targets[i], faults)
           d == storage_delete(e.st, targets[i], faults)
       IN IF e.raised THEN [st |-> e.st, failed |-> TRUE]
          ELSE IF ~e.value THEN cleanup_loop(i + 1, e.st, targets, faults)
          ELSE IF d.raised THEN [st |-> d.st, failed |-> TRUE]
          ELSE cleanup_loop(i + 1, d.st, targets, faults)

(* cleanup without the try/except: a storage error reaches the caller *)
cleanup_old_images_reraise(st, old_image_path, faults) ==
  IF old_image_path = NoName
  THEN [st |-> st, ran |-> FALSE, failed |-> FALSE, raised |-> FALSE]
  ELSE LET r == cleanup_loop(1, st, cleanup_targets(old_image_path), faults)
       IN [st |-> r.st, ran |-> TRUE, failed |-> r.failed,
           raised |-> r.failed]

cleanup_old_images(st, old_image_path, faults) ==
  IF old_image_path = NoName
  THEN [st |-> st, ran |-> FALSE, failed |-> FALSE, raised |-> FALSE]
  ELSE LET r == cleanup_loop(1, st, cleanup_targets(old_image_path), faults)
       IN [st |-> r.st, ran |-> TRUE, failed |-> r.failed, raised |-> FALSE]

NoCleanup(st) == [st |-> st, ran |-> FALSE, failed |-> FALSE, raised |-> FALSE]

(***************************************************************************)
(* get_responsive_image_urls(image_field): 'original' and every            *)
(* <root>_<size>.jpg that exists, as the set of <<key, path>>.             *)
(***************************************************************************)
get_responsive_image_urls(fs, image_name) ==
  IF image_name = NoName THEN {}
  ELSE {<<"original", image_name>>} \cup
       {<<MENU_IMAGE_SIZES[i],
          Name(splitext_root(image_name) \o "_" \o MENU_IMAGE_SIZES[i], "jpg")>> :
          i \in {j \in 1..Len(MENU_IMAGE_SIZES) :
                   Name(splitext_root(image_name) \o "_" \o MENU_IMAGE_SIZES[j],
                        "jpg") \in DOMAIN fs}}

(***************************************************************************)
(* PIL Image.thumbnail(size) on an image of w x h pixels: the size it      *)
(* resizes to.  Ratios are compared exactly, by cross-multiplication.      *)
(***************************************************************************)
Abs(n) == IF n < 0 THEN -n ELSE n

Min(a, b) == IF a <= b THEN a ELSE b

Max(a, b) == IF a >= b THEN a ELSE b

CeilDiv(a, b) == IF a % b = 0 THEN a \div b ELSE (a \div b) + 1

(* each axis cut to the bound on its own *)
thumbnail_clamp(w, h, x, y) == <<Min(w, x), Min(h, y)>>

(* preserve_aspect_ratio() with round_aspect(number, key) =                *)
(* max(min(floor(number), ceil(number), key=key), 1)                        *)
thumbnail(w, h, x, y) ==
  IF x >= w /\ y >= h THEN <<w, h>>
  ELSE IF x * h >= w * y
  THEN LET f == (y * w) \div h
           c == CeilDiv(y * w, h)
           n == IF Abs(w * y - f * h) <= Abs(w * y - c * h) THEN f ELSE c
       IN <<Max(n, 1), y>>
  ELSE LET f == (x * h) \div w
           c == CeilDiv(x * h, w)
           n == IF f = 0 THEN f
                ELSE IF Abs(w * f - x * h) * c <= Abs(w * c - x * h) * f
                THEN f ELSE c
       IN <<x, Max(n, 1)>>

(***************************************************************************)
(* MenuImageField._determine_optimal_size_and_quality and the resize of    *)
(* _smart_optimize_image (menu/fields.py).                                 *)
(***************************************************************************)
(* abs(width/height - p/q) < 0.1 as Python evaluates it in double          *)
(* arithmetic: the ratios strictly inside the band, and the ratio at its   *)
(* lower end, p/q - 0.1, where the rounded difference is 0.0999...         *)
near_ratio(width, height, p, q) ==
  /\ (q * width - p * height) * 10 < q * height
  /\ (q * width - p * height) * 10 >= -(q * height)

(* the classes of the dimensions only: large, small, default *)
determine_optimal_size_and_quality_by_dimensions(width, height, file_size) ==
  IF width > 2000 \/ height > 2000
  THEN [max_w |-> 800, max_h |-> 600, quality |-> 80]
  ELSE IF width <= 800 /\ height <= 600
  THEN [max_w |-> width, max_h |-> height, quality |-> 90]
  ELSE [max_w |-> 1000, max_h |-> 800, quality |-> 85]

determine_optimal_size_and_quality(width, height, file_size) ==
  LET is_likely_phone_photo == width > 2000 \/ height > 2000
      is_likely_ai_image ==
        /\ \/ width = height
           \/ near_ratio(width, height, 16, 9)
           \/ near_ratio(width, height, 4, 3)
        /\ width >= 512
      is_large_file == file_size > 1024 * 1024
  IN IF is_likely_phone_photo \/ is_large_file
     THEN [max_w |-> 800, max_h |-> 600, quality |-> 80]
     ELSE IF is_likely_ai_image
     THEN [max_w |-> 1000, max_h |-> 800, quality |-> 85]
     ELSE IF width <= 800 /\ height <= 600
     THEN [max_w |-> width, max_h |-> height, quality |-> 90]
     ELSE [max_w |-> 1000, max_h |-> 800, quality |-> 85]

smart_optimize_size(width, height, file_size) ==
  LET m == determine_optimal_size_and_quality(width, height, file_size)
  IN IF width > m.max_w \/ height > m.max_h
     THEN thumbnail(width, height, m.max_w, m.max_h)
     ELSE <<width, height>>

(***************************************************************************)
(* Menu items.  A row of the menu_menuitem table is                        *)
(* [state, name, slug, image]; state "new" is a primary key not yet        *)
(* issued, "deleted" one whose row is gone (keys are not reused).          *)
(***************************************************************************)
ItemNames == {"Latte"}

slugify(name) ==
  CASE name = "Latte" -> "latte"
    [] name = "Iced Mocha" -> "iced-mocha"
    [] OTHER -> ""

NewRow == [state |-> "new", name |-> "", slug |-> "", image |-> NoName]

LiveSlugs(d, pk) ==
  {d[q].slug : q \in {r \in DOMAIN d \ {pk} : d[r].state = "live"}}

(* slug = base; counter = 1; while taken: slug = base-counter; counter += 1 *)
RECURSIVE unique_slug(_, _, _)
unique_slug(base_slug, counter, taken) ==
  LET slug == IF counter = 0 THEN base_slug
              ELSE base_slug \o "-" \o ToString(counter)
  IN IF slug \in taken THEN unique_slug(base_slug, counter + 1, taken)
     ELSE slug

(* t in s, for strings *)
contains(s, t) ==
  \E i \in 1..(Len(s) - Len(t) + 1) : SubSeq(s, i, i + Len(t) - 1) = t

(* 'placeholder' in name.lower(); the roots of the model are in lower case *)
contains_placeholder(n) ==
  contains(n.root \o "." \o Lower(n.ext), "placeholder")

has_image(image) == image # NoName /\ ~contains_placeholder(image)

(***************************************************************************)
(* MenuItem.save, lines 205-217: create the sizes, then clean up the old   *)
(* image; any exception of either is logged and dropped.  cmsLog is the    *)
(* part of the log that create_multiple_sizes produced.                    *)
(***************************************************************************)
(* the two steps in the other order *)
process_images_cleanup_first(st, base_name, tag, old_image_path, image_name, inp) ==
  LET cl == IF old_image_path # NoName /\ old_image_path # image_name
            THEN cleanup_old_images(st, old_image_path, inp.faults)
            ELSE NoCleanup(st)
      c == create_multiple_sizes(cl.st, base_name, tag, inp)
  IN [st |-> c.st, cmsRan |-> TRUE, cms |-> c, cleanup |-> cl,
      cmsLog |-> SubSeq(c.st.log, Len(cl.st.log) + 1, Len(c.st.log))]

process_images(st, base_name, tag, old_image_path, image_name, inp) ==
  LET c == create_multiple_sizes(st, base_name, tag, inp)
      cl == IF ~c.raised /\ old_image_path # NoName
               /\ old_image_path # image_name
            THEN cleanup_old_images(c.st, old_image_path, inp.faults)
            ELSE NoCleanup(c.st)
  IN [st |-> cl.st, cmsRan |-> TRUE, cms |-> c, cleanup |-> cl,
      cmsLog |-> SubSeq(c.st.log, Len(st.log) + 1, Len(c.st.log))]

NoProcess(st) ==
  [st |-> st, cmsRan |-> FALSE,
   cms |-> [st |-> st, results |-> <<>>, raised |-> FALSE],
   cleanup |-> NoCleanup(st), cmsLog |-> <<>>]

(***************************************************************************)
(* The outcome of a handler, as kept in last: whether an exception reached *)
(* the caller, the rows and files it left, and what its parts did.         *)
(***************************************************************************)
Outcome(op, pk, raised, err, d, p, oldPath) ==
  [op |-> op, pk |-> pk, raised |-> raised, err |-> err, db |-> d,
   fs |-> p.st.fs, log |-> p.st.log,
   cmsRan |-> p.cmsRan, cmsRaised |-> p.cmsRan /\ p.cms.raised,
   results |-> p.cms.results, cmsLog |-> p.cmsLog,
   cleanupRan |-> p.cleanup.ran, cleanupFailed |-> p.cleanup.failed,
   cleanupRaised |-> p.cleanup.raised, oldPath |-> oldPath]

Start(fs) == [fs |-> fs, calls |-> 0, log |-> <<>>]

(***************************************************************************)
(* MenuItem.save with a newly assigned upload up (NoUpload: none, for an   *)
(* item that has no image).  super().save() runs MenuImageField.pre_save:  *)
(* FileField.pre_save first commits the upload to storage under its own    *)
(* name, then the image is validated, and the name that reaches the row    *)
(* is <root of the stored name>.jpg; the instance keeps the stored name.   *)
(***************************************************************************)
NoUpload ==
  [name |-> NoName, size |-> 0, format |-> "", width |-> 0, height |-> 0]

MenuItem_save(d, fs, pk, item_name, up, gen, inp) ==
  LET row == d[pk]
      old_image_path == IF row.state = "live" THEN row.image ELSE NoName
      slug == IF row.slug # "" THEN row.slug
              ELSE unique_slug(slugify(item_name), 0, LiveSlugs(d, pk))
      name == IF row.state = "live" THEN row.name ELSE item_name
      w == storage_save(Start(fs), up.name,
                        RawContent(pk, gen, up.format # ""), inp.faults)
      v == validate_image(up)
      saved(image) == [d EXCEPT ![pk] = [state |-> "live", name |-> name,
                                         slug |-> slug, image |-> image]]
  IN IF up = NoUpload
     THEN Outcome("save", pk, FALSE, "", saved(row.image),
                  NoProcess(Start(fs)), old_image_path)
     ELSE IF w.raised
     THEN Outcome("save", pk, TRUE, "storage", d, NoProcess(w.st),
                  old_image_path)
     ELSE IF ~v.ok
     THEN Outcome("save", pk, TRUE, v.err, d, NoProcess(w.st),
                  old_image_path)
     ELSE Outcome("save", pk, FALSE, "",
                  saved(Name(splitext_root(w.path), "jpg")),
                  process_images(w.st, slug \o "_" \o ToString(pk),
                                 [pk |-> pk, gen |-> gen], old_image_path,
                                 w.path, inp),
                  old_image_path)

(***************************************************************************)
(* MenuItem.delete: clean up the image files, then delete the row.         *)
(***************************************************************************)
MenuItem_delete(d, fs, pk, inp) ==
  LET row == d[pk]
      cl == IF row.image # NoName
            THEN cleanup_old_images(Start(fs), row.image, inp.faults)
            ELSE NoCleanup(Start(fs))
      p == [NoProcess(cl.st) EXCEPT !.cleanup = cl]
  IN Outcome("delete", pk, FALSE, "",
             [d EXCEPT ![pk] = [NewRow EXCEPT !.state = "deleted"]],
             p, row.image)

(***************************************************************************)
(* MenuItemAdmin.optimize_images for one item of the queryset: the sizes   *)
(* are created from the stored image; an exception is counted, not raised. *)
(***************************************************************************)
optimize_images(d, fs, pk, gen, inp) ==
  LET row == d[pk]
      opened == row.image \in DOMAIN fs /\ fs[row.image].valid
      c == create_multiple_sizes(Start(fs), row.slug \o "_" \o ToString(pk),
                                 [pk |-> pk, gen |-> gen],
                                 [inp EXCEPT !.readable = opened])
      p == [NoProcess(c.st) EXCEPT !.cmsRan = TRUE, !.cms = c,
                                   !.cmsLog = c.st.log]
  IN IF has_image(row.image)
     THEN Outcome("optimize", pk, FALSE, "", d, p, NoName)
     ELSE Outcome("optimize", pk, FALSE, "", d, NoProcess(Start(fs)), NoName)

(***************************************************************************)
(* The inputs of the handlers.                                             *)
(***************************************************************************)
Uploads ==
  { [name |-> Name("photo", "jpg"), size |-> 2000000, format |-> "JPEG",
     width |-> 3000, height |-> 2000],
    [name |-> Name("photo", "png"), size |-> 300000, format |-> "PNG",
     width |-> 640, height |-> 480],
    [name |-> Name("latte_1", "jpg"), size |-> 300000, format |-> "JPEG",
     width |-> 800, height |-> 600],
    [name |-> Name("notes", "gif"), size |-> 1000, format |-> "GIF",
     width |-> 10, height |-> 10] }

(* storage calls of one handler: the upload, the variants, and then either *)
(* the cleanup of the old image or the deletes of the except clause        *)
MaxCalls == 1 + NumVariants + 2 * (1 + Len(MENU_IMAGE_SIZES))

FaultPlans == {{}} \cup {{k} : k \in 0..(MaxCalls - 1)}

Inputs ==
  {i \in [readable : BOOLEAN, encFail : 0..NumVariants, faults : FaultPlans] :
     ~i.readable => i.encFail = 0}

NoFailure == [readable |-> FALSE, encFail |-> 0, faults |-> {}]

CleanInputs == {i \in Inputs : i.encFail = 0 /\ i.faults = {}}

(* the failures a handler may still be given: none once MaxFaults handlers *)
(* have failed; a storage fault next to a failing encoding is one of the   *)
(* deletes of the except clause                                            *)
InputsFor(budget) ==
  IF budget <= 0 THEN CleanInputs
  ELSE {i \in Inputs :
          i.encFail # 0 =>
            \A k \in i.faults : k >= i.encFail - 1 /\ k <= 2 * i.encFail - 2}

Injected(inp) == inp.faults # {} \/ inp.encFail # 0

(* every failure of inp took place in the handler: the storage calls named *)
(* were made, and the encoding named was reached                           *)
Hit(inp, out) ==
  /\ \A k \in inp.faults : k < Len(out.log)
  /\ inp.encFail # 0 =>
       /\ out.cmsRaised
       /\ \A j \in 1..Len(out.cmsLog) :
            out.cmsLog[j].op = "write" => out.cmsLog[j].ok
       /\ Cardinality({j \in 1..Len(out.cmsLog) : out.cmsLog[j].op = "write"})
            = inp.encFail - 1

History(out, fsBefore, dBefore, gen) ==
  [op |-> out.op, pk |-> out.pk, raised |-> out.raised, err |-> out.err,
   log |-> out.log, cmsRan |-> out.cmsRan, cmsRaised |-> out.cmsRaised,
   results |-> out.results, cmsLog |-> out.cmsLog,
   cleanupRan |-> out.cleanupRan, cleanupFailed |-> out.cleanupFailed,
   cleanupRaised |-> out.cleanupRaised, oldPath |-> out.oldPath,
   before |-> fsBefore, rowBefore |-> dBefore[out.pk], gen |-> gen]

NoPx ==
  [stage |-> "none", w |-> 0, h |-> 0, file_size |-> 0, max_w |-> 0,
   max_h |-> 0, quality |-> 0, out_w |-> 0, out_h |-> 0, size |-> "",
   format |-> ""]

(* call holds the last call of a function of the pipeline that is made on  *)
(* its own: [fn, arg, ret]                                                 *)
NoCall == [fn |-> "none"]

(***************************************************************************)
(* The tables of the other applications (sets of rows), the cache of the   *)
(* framework (key -> value) and the requests being handled (process ->     *)
(* its local state).                                                       *)
(***************************************************************************)
NoTables == [BusinessInfo |-> {}, Employee |-> {}, Schedule |-> {},
             SiteTheme |-> {}]

EmptyCache == <<>>

NoProcs == <<>>

Init ==
  /\ db = [pk \in Pks |-> NewRow]
  /\ storage = EmptyFs
  /\ generation = 0
  /\ faulted = 0
  /\ last = History(Outcome("init", 1, FALSE, "", db, NoProcess(Start(EmptyFs)),
                            NoName),
                    EmptyFs, [pk \in Pks |-> NewRow], 0)
  /\ px = NoPx
  /\ call = NoCall
  /\ tables = NoTables
  /\ cache = EmptyCache
  /\ procs = NoProcs
  /\ clock = 0

Apply(out, gen, inp) ==
  /\ Hit(inp, out)
  /\ db' = out.db
  /\ storage' = out.fs
  /\ generation' = gen
  /\ faulted' = IF Injected(inp) THEN faulted + 1 ELSE faulted
  /\ last' = History(out, storage, db, gen)
  /\ UNCHANGED <<px, call,
                 tables, cache, procs, clock>>

(* a new row gets the next primary key *)
NextPk(pk) == \A q \in Pks : q < pk => db[q].state # "new"

Save(pk) ==
  /\ db[pk].state \in {"new", "live"}
  /\ db[pk].state = "new" => NextPk(pk)
  /\ \E item_name \in IF db[pk].state = "live" THEN {db[pk].name} ELSE ItemNames :
       \/ /\ db[pk].image = NoName
          /\ \E out \in {MenuItem_save(db, storage, pk, item_name, NoUpload,
                                       generation, NoFailure)} :
               Apply(out, generation, NoFailure)
       \/ /\ generation < MaxGenerations
          /\ \E up \in Uploads :
               \E inp \in IF validate_image(up).ok
                          THEN InputsFor(MaxFaults - faulted)
                          ELSE {i \in InputsFor(MaxFaults - faulted) :
                                  ~i.readable} :
                 /\ ~inp.readable => inp.faults \subseteq {0}
                 /\ \E out \in {MenuItem_save(db, storage, pk, item_name, up,
                                              generation + 1, inp)} :
                      Apply(out, generation + 1, inp)

Delete(pk) ==
  /\ db[pk].state = "live"
  /\ \E inp \in {i \in InputsFor(MaxFaults - faulted) : ~i.readable} :
       \E out \in {MenuItem_delete(db, storage, pk, inp)} :
         Apply(out, generation, inp)

OptimizeImages(pk) ==
  /\ db[pk].state = "live"
  /\ db[pk].image # NoName
  /\ generation < MaxGenerations
  /\ \E inp \in {i \in InputsFor(MaxFaults - faulted) : i.readable} :
       \E out \in {optimize_images(db, storage, pk, generation + 1, inp)} :
         Apply(out, generation + 1, inp)

Next ==
  \/ \E pk \in Pks : Save(pk)
  \/ \E pk \in Pks : Delete(pk)
  \/ \E pk \in Pks : OptimizeImages(pk)

Spec == Init /\ [][Next]_vars

(***************************************************************************)
(* Reading the state.                                                      *)
(***************************************************************************)
VariantsOf(fs, pk) ==
  {n \in DOMAIN fs : fs[n].kind = "variant" /\ fs[n].pk = pk}

UrlPaths(fs, image_name) ==
  {u[2] : u \in get_responsive_image_urls(fs, image_name)}

(* the last handler was a MenuItem.save whose create_multiple_sizes        *)
(* returned normally                                                       *)
SavedWithVariants ==
  last.op = "save" /\ ~last.raised /\ last.cmsRan /\ ~last.cmsRaised

(* positions of the log at which a file that existed before the handler    *)
(* was removed                                                             *)
OldDeletes ==
  {i \in 1..Len(last.log) :
     /\ last.log[i].op = "delete" /\ last.log[i].ok /\ last.log[i].hit
     /\ last.log[i].name \in DOMAIN last.before}

VariantWritesBefore(i) ==
  Cardinality({j \in 1..(i - 1) :
                 /\ last.log[j].op = "write" /\ last.log[j].ok
                 /\ last.log[j].kind = "variant"})

(***************************************************************************)
(* C1: after two successive successful uploads for the same menu item,     *)
(* each of which generated its sizes, no variant file of the first upload  *)
(* remains in storage and get_responsive_image_urls gives only paths of    *)
(* files of the second upload.                                             *)
(***************************************************************************)
C1_ReuploadReplaces ==
  (/\ SavedWithVariants
   /\ last.rowBefore.image # NoName
   /\ \E n \in VariantsOf(last.before, last.pk) : last.before[n].gen < last.gen)
  => /\ \A n \in VariantsOf(storage, last.pk) : storage[n].gen = last.gen
     /\ UrlPaths(storage, db[last.pk].image) \subseteq Written(last.log)

(***************************************************************************)
(* C2: in MenuItem.save no file that existed before the save is deleted    *)
(* before every variant of the new set has been written, and when the      *)
(* save raises or create_multiple_sizes fails no such file is deleted.     *)
(***************************************************************************)
C2_WriteNewThenDeleteOld ==
  last.op = "save" =>
    /\ \A i \in OldDeletes : VariantWritesBefore(i) = 8
    /\ (last.raised \/ last.cmsRaised) => OldDeletes = {}

C2_Witness ==
  /\ SavedWithVariants
  /\ last.rowBefore.image # NoName
  /\ OldDeletes # {}

(***************************************************************************)
(* C3 as claimed: when create_multiple_sizes fails, none of the files it   *)
(* wrote during the call remains in storage.                               *)
(***************************************************************************)
C3_AllOrNothing ==
  last.cmsRaised => Written(last.cmsLog) \cap DOMAIN storage = {}

(***************************************************************************)
(* C3 amended: when create_multiple_sizes fails, every file it wrote       *)
(* during the call is gone from storage, except a file whose delete by     *)
(* the except clause itself raised.                                        *)
(***************************************************************************)
C3_DiscardBestEffort ==
  last.cmsRaised =>
    Written(last.cmsLog) \cap DOMAIN storage \subseteq DeleteFailed(last.cmsLog)

C3_Witness ==
  /\ last.cmsRaised
  /\ Cardinality(Written(last.cmsLog)) >= 2
  /\ Written(last.cmsLog) \cap DOMAIN storage = {}

(***************************************************************************)
(* C4: right after create_multiple_sizes generated the variants of an      *)
(* item, get_responsive_image_urls for the item has an entry for every     *)
(* variant file just written and no entry for anything else.               *)
(***************************************************************************)
C4_RoundTrip ==
  SavedWithVariants =>
    UrlPaths(storage, db[last.pk].image) = Written(last.cmsLog)

(***************************************************************************)
(* C5: a create_multiple_sizes call that returns normally returns exactly  *)
(* one entry per size (thumbnail, card, detail, hero) and format (webp,    *)
(* jpg), 8 entries, and the path of each entry is a file the call wrote.   *)
(***************************************************************************)
C5_EightEntries ==
  (last.cmsRan /\ ~last.cmsRaised) =>
    /\ Len(last.results) = 8
    /\ DictKeys(last.results) =
         {s \o "_" \o e : s \in {"thumbnail", "card", "detail", "hero"},
                          e \in {"webp", "jpg"}}
    /\ Cardinality(DictPaths(last.results)) = 8
    /\ DictPaths(last.results) = Written(last.cmsLog)

C5_Witness ==
  /\ last.cmsRan /\ ~last.cmsRaised
  /\ Len(last.results) = 8

(***************************************************************************)
(* C7: when validate_image rejects the upload during MenuItem.save, the    *)
(* save changes no row and adds no file to storage.                        *)
(***************************************************************************)
C7_NoPartialState ==
  (last.op = "save" /\ last.raised /\ last.err # "storage")
  => /\ db[last.pk] = last.rowBefore
     /\ storage = last.before

(***************************************************************************)
(* C8: when create_multiple_sizes fails during MenuItem.save, the caller   *)
(* of save gets the failure and the row does not refer to the new image.   *)
(***************************************************************************)
C8_FailedGenerationRejects ==
  (last.op = "save" /\ last.cmsRaised)
  => /\ last.raised
     /\ db[last.pk] = last.rowBefore

(***************************************************************************)
(* C9: no exception leaves cleanup_old_images, whatever storage call       *)
(* raises in it, and the MenuItem.save or MenuItem.delete around it        *)
(* completes: the row is saved, respectively deleted.                      *)
(***************************************************************************)
C9_CleanupNeverPropagates ==
  last.cleanupRan =>
    /\ ~last.cleanupRaised
    /\ ~last.raised
    /\ last.op = "save" =>
         /\ db[last.pk].state = "live"
         /\ db[last.pk].image = Name(splitext_root(last.log[1].name), "jpg")
    /\ last.op = "delete" => db[last.pk].state = "deleted"

C9_Witness ==
  /\ last.op = "delete"
  /\ last.cleanupRan /\ last.cleanupFailed
  /\ db[last.pk].state = "deleted"

(***************************************************************************)
(* C10: after MenuItem.delete with a storage that works, neither the       *)
(* item's main image nor any variant file generated for the item remains.  *)
(***************************************************************************)
C10_DeleteRemovesImageSet ==
  (/\ last.op = "delete"
   /\ \A i \in 1..Len(last.log) : last.log[i].ok)
  => \A n \in DOMAIN storage : storage[n].pk # last.pk

(***************************************************************************)
(* C11: a handler that acts on one menu item leaves every file of another  *)
(* live menu item (its main image and its variants) as it was: neither     *)
(* deleted nor overwritten.                                                *)
(***************************************************************************)
C11_NoCrossItemDamage ==
  last.op \in {"save", "delete", "optimize"} =>
    \A n \in DOMAIN last.before :
      (/\ last.before[n].pk # last.pk
       /\ last.before[n].pk \in Pks
       /\ db[last.before[n].pk].state = "live")
      => /\ n \in DOMAIN storage
         /\ storage[n] = last.before[n]

(***************************************************************************)
(* C15: a failure of the pipeline reaches the caller as a returned value:  *)
(* no exception leaves create_multiple_sizes, and none leaves              *)
(* MenuItem.save from the image processing of MenuImageField.pre_save.     *)
(***************************************************************************)
C15_FailuresAreReturned ==
  last.op \in {"save", "optimize"} =>
    /\ ~last.cmsRaised
    /\ last.err \in {"too_large", "extension", "corrupted", "format",
                     "dimensions"} => ~last.raised

(***************************************************************************)
(* C29: after a successful MenuItem.save with a new upload, the image      *)
(* name on the row is the name of a file in storage, and that file is the  *)
(* optimized JPEG of MenuImageField.pre_save, not the upload as received.  *)
(***************************************************************************)
C29_RowNamesOptimizedFile ==
  (/\ last.op = "save" /\ ~last.raised
   /\ \E i \in 1..Len(last.log) :
        last.log[i].op = "write" /\ last.log[i].ok /\ last.log[i].kind = "raw")
  => /\ db[last.pk].image \in DOMAIN storage
     /\ storage[db[last.pk].image].kind = "optimized"

(***************************************************************************)
(* C28: when create_multiple_sizes fails, the deletes of its except        *)
(* clause are of files that this call wrote, and every file that was in    *)
(* storage before the handler began is still there with the same content.  *)
(***************************************************************************)
C28_DiscardsOnlyOwnFiles ==
  last.cmsRaised =>
    /\ \A i \in 1..Len(last.cmsLog) :
         last.cmsLog[i].op = "delete" =>
           last.cmsLog[i].name \in Written(SubSeq(last.cmsLog, 1, i - 1))
    /\ \A n \in DOMAIN last.before :
         n \in DOMAIN storage /\ storage[n] = last.before[n]

C28_Witness ==
  /\ last.cmsRaised
  /\ Deleted(last.cmsLog) # {}
  /\ \E n \in DOMAIN last.before :
       /\ last.before[n].kind = "variant" /\ last.before[n].pk = last.pk
       /\ n \in DOMAIN storage
       /\ \E m \in Deleted(last.cmsLog) : m.ext = n.ext /\ m.root # n.root
                                          /\ contains(m.root, n.root)

(***************************************************************************)
(* The resizing on its own: a source of w x h pixels and file_size bytes   *)
(* is resized for one entry of the catalog (create_multiple_sizes, lines   *)
(* 200-205) or as the main image (_smart_optimize_image, lines 95-106).    *)
(***************************************************************************)
DimStride == 37

DimEdges ==
  {1, 2, 3, 7, 149, 150, 151, 299, 300, 301, 400, 401, 511, 512, 599, 600,
   601, 800, 801, 899, 900, 901, 1000, 1001, 1199, 1200, 1201, 2000, 2001,
   3000, 4095, 4096}

DimSamples ==
  {d \in 1..max_dimension : d % DimStride = 0} \cup
  {d \in DimEdges : d <= max_dimension}

FileSizeSamples == {300000, 1024 * 1024, 1024 * 1024 + 1}

InitResize ==
  /\ db = [pk \in Pks |-> NewRow]
  /\ storage = EmptyFs
  /\ generation = 0
  /\ faulted = 0
  /\ last = History(Outcome("init", 1, FALSE, "", db, NoProcess(Start(EmptyFs)),
                            NoName),
                    EmptyFs, [pk \in Pks |-> NewRow], 0)
  /\ \E w \in DimSamples, h \in DimSamples, fsz \in FileSizeSamples :
       px = [NoPx EXCEPT !.stage = "source", !.w = w, !.h = h,
                         !.file_size = fsz]
  /\ call = NoCall
  /\ tables = NoTables
  /\ cache = EmptyCache
  /\ procs = NoProcs
  /\ clock = 0

CreateSize(i) ==
  /\ px.stage = "source"
  /\ \E k \in 1..NumFormats :
       LET sz == enhanced_sizes[i]
           fm == formats(sz.name)[k]
           out == thumbnail(px.w, px.h, sz.w, sz.h)
       IN px' = [px EXCEPT !.stage = "variant", !.max_w = sz.w,
                           !.max_h = sz.h, !.out_w = out[1], !.out_h = out[2],
                           !.size = sz.name, !.format = fm.format,
                           !.quality = fm.quality]
  /\ UNCHANGED <<db, storage, generation, faulted, last, call,
                 tables, cache, procs, clock>>

SmartOptimize ==
  /\ px.stage = "source"
  /\ LET m == determine_optimal_size_and_quality(px.w, px.h, px.file_size)
         out == smart_optimize_size(px.w, px.h, px.file_size)
     IN px' = [px EXCEPT !.stage = "main", !.max_w = m.max_w,
                         !.max_h = m.max_h, !.quality = m.quality,
                         !.out_w = out[1], !.out_h = out[2],
                         !.format = "JPEG"]
  /\ UNCHANGED <<db, storage, generation, faulted, last, call,
                 tables, cache, procs, clock>>

NextResize ==
  \/ \E i \in 1..Len(enhanced_sizes) : CreateSize(i)
  \/ SmartOptimize

SpecResize == InitResize /\ [][NextResize]_vars

(* one axis is within one pixel of what the other axis and the source      *)
(* ratio give                                                              *)
AspectKept(w, h, x, y) ==
  \/ Abs(x * h - y * w) < h
  \/ Abs(y * w - x * h) < w

(***************************************************************************)
(* C6: every resized image fits the bounds it was resized against, is on   *)
(* neither axis larger than its source, and keeps the source aspect ratio  *)
(* within one pixel; for the catalog entries and for the main image.       *)
(***************************************************************************)
C6_FitsBoundsKeepsAspect ==
  px.stage \in {"variant", "main"} =>
    /\ 1 <= px.out_w /\ px.out_w <= px.max_w /\ px.out_w <= px.w
    /\ 1 <= px.out_h /\ px.out_h <= px.max_h /\ px.out_h <= px.h
    /\ AspectKept(px.w, px.h, px.out_w, px.out_h)

C6_Witness ==
  /\ px.stage = "variant"
  /\ px.w = 3000 /\ px.h = 2000
  /\ px.max_w = 400 /\ px.out_w = 400 /\ px.out_h = 267

InitCalls ==
  /\ db = [pk \in Pks |-> NewRow]
  /\ storage = EmptyFs
  /\ generation = 0
  /\ faulted = 0
  /\ last = History(Outcome("init", 1, FALSE, "", db, NoProcess(Start(EmptyFs)),
                            NoName),
                    EmptyFs, [pk \in Pks |-> NewRow], 0)
  /\ px = NoPx
  /\ call = NoCall
  /\ tables = NoTables
  /\ cache = EmptyCache
  /\ procs = NoProcs
  /\ clock = 0

(* files around the limits of validate_image *)
FileSizeEdges ==
  {1, MAX_FILE_SIZE - 1, MAX_FILE_SIZE, MAX_FILE_SIZE + 1, 2 * MAX_FILE_SIZE}

ExtensionSamples ==
  {"jpg", "JPG", "Jpg", "jpeg", "png", "PNG", "webp", "gif", "GIF", "exe", ""}

FormatSamples == {"", "JPEG", "PNG", "WEBP", "GIF"}

PixelEdges == {1, max_dimension - 1, max_dimension, max_dimension + 1}

ValidateSamples ==
  {[name |-> Name("photo", e), size |-> s, format |-> fm, width |-> w,
    height |-> h] :
     e \in ExtensionSamples, s \in FileSizeEdges, fm \in FormatSamples,
     w \in PixelEdges, h \in PixelEdges}

ValidateImage ==
  /\ call = NoCall
  /\ \E f \in ValidateSamples :
       call' = [fn |-> "validate_image", arg |-> f, ret |-> validate_image(f)]
  /\ UNCHANGED <<db, storage, generation, faulted, last, px,
                 tables, cache, procs, clock>>

(***************************************************************************)
(* FileUploadSecurityMiddleware (core/middleware.py).  A request is        *)
(* [method, FILES]; FILES is the sequence of [field, file] of its          *)
(* multipart body, and settings holds MAX_UPLOAD_SIZE, BLOCKED_EXTENSIONS  *)
(* and ALLOWED_MIME_TYPES.                                                 *)
(***************************************************************************)
(* the check without the one on the content type *)
is_safe_upload_any_type(uploaded_file, settings) ==
  IF uploaded_file.size > settings.MAX_UPLOAD_SIZE THEN FALSE
  ELSE IF Lower(uploaded_file.name.ext) \in settings.BLOCKED_EXTENSIONS
       THEN FALSE
  ELSE TRUE

is_safe_upload(uploaded_file, settings) ==
  IF uploaded_file.size > settings.MAX_UPLOAD_SIZE THEN FALSE
  ELSE IF Lower(uploaded_file.name.ext) \in settings.BLOCKED_EXTENSIONS
       THEN FALSE
  ELSE IF /\ settings.ALLOWED_MIME_TYPES # {}
          /\ uploaded_file.content_type \notin settings.ALLOWED_MIME_TYPES
       THEN FALSE
  ELSE TRUE

(* the response of the middleware: 429, or 0 for None (the request goes on *)
(* to the view)                                                            *)
process_request(request, settings) ==
  IF /\ request.method = "POST"
     /\ request.FILES # <<>>
     /\ \E i \in 1..Len(request.FILES) :
          ~is_safe_upload(request.FILES[i].file, settings)
  THEN 429
  ELSE 0

(* the file the form of the menu item reads, request.FILES['image'] *)
image_of(request) ==
  IF \E i \in 1..Len(request.FILES) : request.FILES[i].field = "image"
  THEN request.FILES[CHOOSE i \in 1..Len(request.FILES) :
                       request.FILES[i].field = "image"].file
  ELSE NoUpload

ContentTypes == {"image/jpeg", "image/png", "text/html", ""}

RequestFiles ==
  {[name |-> Name(r, e), size |-> s, format |-> "JPEG", width |-> 640,
    height |-> 480, content_type |-> ct] :
     r \in {"photo", "cup_placeholder"}, e \in {"jpg", "php"},
     s \in {1000, MAX_FILE_SIZE, MAX_FILE_SIZE + 1}, ct \in ContentTypes}

Attachments ==
  {f \in RequestFiles : f.size = 1000 /\ f.content_type \in {"image/png", "text/html"}}

Requests ==
  {[method |-> "GET", FILES |-> <<>>], [method |-> "POST", FILES |-> <<>>]}
  \cup {[method |-> "POST", FILES |-> <<[field |-> "image", file |-> f]>>] :
          f \in RequestFiles}
  \cup {[method |-> "POST",
         FILES |-> <<[field |-> "image", file |-> f],
                     [field |-> "attachment", file |-> g]>>] :
          f \in RequestFiles, g \in Attachments}

SettingsSamples ==
  [MAX_UPLOAD_SIZE : {5242880},
   BLOCKED_EXTENSIONS : {{}, {"php", "exe"}},
   ALLOWED_MIME_TYPES : {{}, {"image/jpeg", "image/png", "image/webp"}}]

(* a request to the form that adds a menu item: the middleware, and when   *)
(* it lets the request pass, the view, which saves the item with the       *)
(* uploaded image                                                          *)
Request ==
  /\ call = NoCall
  /\ \E request \in Requests, settings \in SettingsSamples :
       LET response == process_request(request, settings)
       IN IF response = 429 \/ request.method # "POST"
          THEN /\ call' = [fn |-> "request", arg |-> request,
                           settings |-> settings, ret |-> response,
                           has_image |-> FALSE]
               /\ UNCHANGED <<db, storage, generation, faulted, last, px,
                              tables, cache, procs, clock>>
          ELSE \E inp \in CleanInputs :
                 \E out \in {MenuItem_save(db, storage, 1, "Latte",
                                            image_of(request), 1, inp)} :
                   /\ call' = [fn |-> "request", arg |-> request,
                               settings |-> settings,
                               ret |-> IF out.raised THEN 400 ELSE 200,
                               has_image |-> has_image(out.db[1].image)]
                   /\ db' = out.db
                   /\ storage' = out.fs
                   /\ generation' = 1
                   /\ last' = History(out, storage, db, 1)
                   /\ UNCHANGED <<faulted, px,
                                  tables, cache, procs, clock>>

(***************************************************************************)
(* The EXIF rotation of _smart_optimize_image (fields.py 76-93) and of     *)
(* create_multiple_sizes (image_processing.py 169-186).  An image file is  *)
(* [w, h, size, orientation, turn]: orientation is its EXIF Orientation    *)
(* tag (0: none) and turn the angle, counter-clockwise, by which its       *)
(* pixels were rotated since the upload.  A PIL image has, besides, reader *)
(* for hasattr(img, '_getexif'): an image opened from a file has it, one   *)
(* made by rotate() has not.                                               *)
(***************************************************************************)
image_open(file) ==
  [w |-> file.w, h |-> file.h, orientation |-> file.orientation,
   turn |-> file.turn, reader |-> TRUE]

(* img.rotate(angle, expand=True) *)
rotate(img, angle) ==
  [w |-> IF angle \in {90, 270} THEN img.h ELSE img.w,
   h |-> IF angle \in {90, 270} THEN img.w ELSE img.h,
   orientation |-> img.orientation,
   turn |-> (img.turn + angle) % 360,
   reader |-> FALSE]

exif_rotate(img) ==
  IF img.reader /\ img.orientation # 0
  THEN CASE img.orientation = 3 -> rotate(img, 180)
         [] img.orientation = 6 -> rotate(img, 270)
         [] img.orientation = 8 -> rotate(img, 90)
         [] OTHER -> img
  ELSE img

(* an encoder that copies the EXIF block of the source *)
image_save_jpeg_keep_exif(img, size) ==
  [w |-> img.w, h |-> img.h, size |-> size, orientation |-> img.orientation,
   turn |-> img.turn]

(* img.save(output, format='JPEG', ...) without exif=: no EXIF is written *)
image_save_jpeg(img, size) ==
  [w |-> img.w, h |-> img.h, size |-> size, orientation |-> 0,
   turn |-> img.turn]

smart_optimize_image(image_file) ==
  LET img == exif_rotate(image_open(image_file))
      sz == smart_optimize_size(img.w, img.h, image_file.size)
  IN image_save_jpeg([img EXCEPT !.w = sz[1], !.h = sz[2]], image_file.size)

OrientationSamples == {0, 1, 2, 3, 6, 8}

PhotoSamples ==
  {[w |-> d[1], h |-> d[2], size |-> fsz, orientation |-> o, turn |-> 0] :
     d \in {<<3000, 2000>>, <<640, 480>>, <<480, 640>>, <<100, 100>>},
     fsz \in {300000, 2000000}, o \in OrientationSamples}

(* MenuImageField.pre_save: the upload goes through _smart_optimize_image *)
OptimizeUpload ==
  /\ call = NoCall
  /\ \E image_file \in PhotoSamples :
       call' = [fn |-> "_smart_optimize_image", arg |-> image_file,
                ret |-> smart_optimize_image(image_file),
                once |-> exif_rotate(image_open(image_file)),
                twice |-> exif_rotate(exif_rotate(image_open(image_file)))]
  /\ UNCHANGED <<db, storage, generation, faulted, last, px,
                 tables, cache, procs, clock>>

(* create_multiple_sizes after it, on the optimized image or on the        *)
(* upload as it was stored: img after its rotation, from which every size  *)
(* is made                                                                 *)
RotateForSizes ==
  /\ call.fn = "_smart_optimize_image"
  /\ \E from \in {"optimized", "upload"} :
       LET image_file == IF from = "optimized" THEN call.ret ELSE call.arg
       IN call' = [fn |-> "create_multiple_sizes", arg |-> call.arg,
                   from |-> from, ret |-> exif_rotate(image_open(image_file)),
                   once |-> exif_rotate(image_open(image_file)),
                   twice |->
                     exif_rotate(exif_rotate(image_open(image_file)))]
  /\ UNCHANGED <<db, storage, generation, faulted, last, px,
                 tables, cache, procs, clock>>

(***************************************************************************)
(* generate_placeholder_image(text, size, color_index).  env says what the *)
(* runtime makes fail: env.fail names the step of the try block that       *)
(* raises ("font": arial.ttf cannot be loaded, "no_font": nor the default  *)
(* font, both handled inside), env.fallback_fails whether the except       *)
(* clause raises too.  Image.new rejects a negative width or height, and   *)
(* an image without pixels cannot be saved as JPEG.  The result is the     *)
(* image returned, by its background and what was drawn on it, or raised.  *)
(***************************************************************************)
PLACEHOLDER_COLORS ==
  <<"#E3F2FD", "#F3E5F5", "#E8F5E8", "#FFF3E0", "#FCE4EC", "#F1F8E9">>

PlaceholderImage(background, size, text, decorated) ==
  [raised |-> FALSE, background |-> background, w |-> size[1], h |-> size[2],
   text |-> text, border |-> decorated, icon |-> decorated]

PlaceholderRaised ==
  [raised |-> TRUE, background |-> "", w |-> 0, h |-> 0, text |-> "",
   border |-> FALSE, icon |-> FALSE]

(* the first colour of the palette for every index *)
generate_placeholder_image_one_colour(text, size, color_index, env) ==
  LET bg_color == PLACEHOLDER_COLORS[1]
      new_raises == size[1] < 0 \/ size[2] < 0
      save_raises == size[1] = 0 \/ size[2] = 0
      font == IF env.fail = "no_font" THEN "" ELSE "font"
  IN IF ~(\/ new_raises \/ save_raises
          \/ env.fail \in {"create", "text", "border", "icon", "encode"})
     THEN PlaceholderImage(bg_color, size, IF font = "" THEN "" ELSE text, TRUE)
     ELSE IF ~(new_raises \/ save_raises \/ env.fallback_fails)
     THEN PlaceholderImage("#F5F5F5", size, "", FALSE)
     ELSE PlaceholderRaised

(* without the except clause *)
generate_placeholder_image_no_fallback(text, size, color_index, env) ==
  LET bg_color ==
        PLACEHOLDER_COLORS[(color_index % Len(PLACEHOLDER_COLORS)) + 1]
      new_raises == size[1] < 0 \/ size[2] < 0
      save_raises == size[1] = 0 \/ size[2] = 0
      font == IF env.fail = "no_font" THEN "" ELSE "font"
  IN IF ~(\/ new_raises \/ save_raises
          \/ env.fail \in {"create", "text", "border", "icon", "encode"})
     THEN PlaceholderImage(bg_color, size, IF font = "" THEN "" ELSE text, TRUE)
     ELSE PlaceholderRaised

generate_placeholder_image(text, size, color_index, env) ==
  LET bg_color ==
        PLACEHOLDER_COLORS[(color_index % Len(PLACEHOLDER_COLORS)) + 1]
      new_raises == size[1] < 0 \/ size[2] < 0
      save_raises == size[1] = 0 \/ size[2] = 0
      font == IF env.fail = "no_font" THEN "" ELSE "font"
  IN IF ~(\/ new_raises \/ save_raises
          \/ env.fail \in {"create", "text", "border", "icon", "encode"})
     THEN PlaceholderImage(bg_color, size, IF font = "" THEN "" ELSE text, TRUE)
     ELSE IF ~(new_raises \/ save_raises \/ env.fallback_fails)
     THEN PlaceholderImage("#F5F5F5", size, "", FALSE)
     ELSE PlaceholderRaised

DrawingSteps ==
  {"none", "create", "font", "no_font", "text", "border", "icon", "encode"}

(* the fallback is reached only when a step of the try block raised *)
Environments ==
  {e \in [fail : DrawingSteps, fallback_fails : BOOLEAN] :
     e.fallback_fails => e.fail \in {"create", "text", "border", "icon", "encode"}}

PlaceholderSizes == {<<400, 300>>, <<150, 150>>, <<0, 300>>, <<400, -1>>}

ColorIndexes == {-7, -1, 0, 2, 5, 6, 8, 13}

PlaceholderTexts == {"Vanilla Latte", ""}

GeneratePlaceholder ==
  /\ call = NoCall
  /\ \E text \in PlaceholderTexts, size \in PlaceholderSizes,
        color_index \in ColorIndexes, env \in Environments :
       call' = [fn |-> "generate_placeholder_image",
                arg |-> [text |-> text, size |-> size,
                         color_index |-> color_index],
                env |-> env,
                ret |-> generate_placeholder_image(text, size, color_index, env)]
  /\ UNCHANGED <<db, storage, generation, faulted, last, px,
                 tables, cache, procs, clock>>

(* a second call with the same size and color_index *)
GeneratePlaceholderAgain ==
  /\ call.fn = "generate_placeholder_image"
  /\ \E text \in PlaceholderTexts, env \in Environments :
       call' = [fn |-> "generate_placeholder_image (again)",
                arg |-> [call.arg EXCEPT !.text = text],
                env |-> env,
                first |-> [env |-> call.env, ret |-> call.ret],
                ret |-> generate_placeholder_image(text, call.arg.size,
                                                   call.arg.color_index, env)]
  /\ UNCHANGED <<db, storage, generation, faulted, last, px,
                 tables, cache, procs, clock>>

(***************************************************************************)
(* ensure_placeholder_exists(menu_item).  A menu item in memory is         *)
(* [id, name, slug, category, image]; category is [has, order].  Only the  *)
(* instance in memory gets the name of the placeholder: the row is not     *)
(* written.                                                                *)
(***************************************************************************)
MENU_IMAGE_SIZES_card == <<400, 300>>

PlaceholderContent(pk) ==
  [kind |-> "placeholder", pk |-> pk, gen |-> 0, size |-> "card",
   format |-> "JPEG", valid |-> TRUE]

(* menu_item.name[:20] + ('...' if len(menu_item.name) > 20 else '') *)
placeholder_text(name) ==
  IF Len(name) > 20 THEN SubSeq(name, 1, 20) \o "..." ELSE name

ensure_placeholder_exists(menu_item, fs, env, faults) ==
  LET color_index == IF menu_item.category.has THEN menu_item.category.order
                     ELSE 0
      placeholder_image ==
        generate_placeholder_image(placeholder_text(menu_item.name),
                                   MENU_IMAGE_SIZES_card, color_index, env)
      filename == Name("placeholder_" \o (IF menu_item.slug # ""
                                            THEN menu_item.slug
                                            ELSE ToString(menu_item.id)),
                       "jpg")
      w == storage_save(Start(fs), filename, PlaceholderContent(menu_item.id),
                        faults)
  IN IF menu_item.image # NoName
     THEN [ret |-> TRUE, created |-> FALSE, image |-> menu_item.image,
           fs |-> fs, placeholder |-> PlaceholderRaised]
     ELSE IF placeholder_image.raised
     THEN [ret |-> FALSE, created |-> FALSE, image |-> menu_item.image,
           fs |-> fs, placeholder |-> placeholder_image]
     ELSE IF w.raised
     THEN [ret |-> FALSE, created |-> FALSE, image |-> menu_item.image,
           fs |-> fs, placeholder |-> placeholder_image]
     ELSE [ret |-> TRUE, created |-> TRUE, image |-> w.path,
           fs |-> w.st.fs, placeholder |-> placeholder_image]

CategoryOrders == {0, 2, 8}

Categories ==
  {[has |-> FALSE, order |-> 0]} \cup
  {[has |-> TRUE, order |-> o] : o \in CategoryOrders}

MenuItemSamples ==
  {[id |-> 1, name |-> n, slug |-> sl, category |-> c, image |-> im] :
     n \in {"Latte", "Caramel Macchiato with Oat Milk"},
     sl \in {"latte", ""}, c \in Categories,
     im \in {NoName, Name("photo", "jpg")}}

EnsurePlaceholder ==
  /\ call = NoCall
  /\ \E menu_item \in MenuItemSamples, env \in Environments,
        faults \in {{}, {0}} :
       \E out \in {ensure_placeholder_exists(menu_item, storage, env, faults)} :
         /\ call' = [fn |-> "ensure_placeholder_exists", arg |-> menu_item,
                     env |-> env, faults |-> faults, ret |-> out.ret,
                     created |-> out.created, image |-> out.image,
                     placeholder |-> out.placeholder,
                     has_image |-> has_image(out.image)]
         /\ storage' = out.fs
  /\ UNCHANGED <<db, generation, faulted, last, px,
                 tables, cache, procs, clock>>

(* the same menu item, loaded from its row again, whose category may have  *)
(* been given another order in between                                     *)
EnsurePlaceholderAgain ==
  /\ call.fn = "ensure_placeholder_exists"
  /\ call.arg.image = NoName
  /\ \E category \in {c \in Categories : c.has = call.arg.category.has},
        env \in Environments :
       \E out \in {ensure_placeholder_exists(
                      [call.arg EXCEPT !.category = category], storage, env,
                      {})} :
         /\ call' = [fn |-> "ensure_placeholder_exists (again)",
                     arg |-> [call.arg EXCEPT !.category = category],
                     env |-> env, faults |-> {}, ret |-> out.ret,
                     created |-> out.created, image |-> out.image,
                     placeholder |-> out.placeholder,
                     has_image |-> has_image(out.image),
                     first |-> [arg |-> call.arg, env |-> call.env,
                                created |-> call.created,
                                placeholder |-> call.placeholder]]
         /\ storage' = out.fs
  /\ UNCHANGED <<db, generation, faulted, last, px,
                 tables, cache, procs, clock>>

(***************************************************************************)
(* MenuItem.get_display_image_url(size).  image_urls is the dictionary of  *)
(* get_image_urls(), the set of <<key, path>>; get_responsive_image_urls   *)
(* fills it in the order original, thumbnail, card, detail, which is the   *)
(* order next(iter(image_urls.values())) sees.  None is [none |-> TRUE].   *)
(***************************************************************************)
Url(path) == [none |-> FALSE, url |-> path]

None == [none |-> TRUE, url |-> NoName]

first_in(order, i, image_urls) ==
  LET RECURSIVE scan(_)
      scan(j) ==
        IF j > Len(order) THEN None
        ELSE IF order[j] \in {e[1] : e \in image_urls}
        THEN Url((CHOOSE e \in image_urls : e[1] = order[j])[2])
        ELSE scan(j + 1)
  IN scan(i)

get_display_image_url_original_first(image_urls, size) ==
  IF image_urls = {} THEN None
  ELSE first_in(<<size, "original", "card", "detail", "thumbnail">>, 1,
                image_urls)

get_display_image_url(image_urls, size) ==
  LET preferred_order == <<size, "card", "detail", "original", "thumbnail">>
      found == first_in(preferred_order, 1, image_urls)
  IN IF image_urls = {} THEN None
     ELSE IF ~found.none THEN found
     ELSE first_in(<<"original", "thumbnail", "card", "detail">>, 1,
                   image_urls)

(* get_image_urls() without create_placeholder *)
get_image_urls(fs, image_name) ==
  IF image_name # NoName THEN get_responsive_image_urls(fs, image_name)
  ELSE {}

DisplayImageUrl ==
  /\ call = NoCall
  /\ \E fs \in {[n \in {Name("photo", "jpg")} \cup
                       {Name("photo_" \o sz, "jpg") : sz \in present} |->
                   RawContent(1, 1, TRUE)] :
                  present \in SUBSET {"thumbnail", "card", "detail"}},
        image \in {NoName, Name("photo", "jpg")},
        size \in {"thumbnail", "card", "detail", "original", "banner"} :
       /\ call' = [fn |-> "get_display_image_url",
                   arg |-> [image |-> image, size |-> size],
                   image_urls |-> get_image_urls(fs, image),
                   ret |-> get_display_image_url(get_image_urls(fs, image),
                                                 size)]
       /\ storage' = fs
  /\ UNCHANGED <<db, generation, faulted, last, px,
                 tables, cache, procs, clock>>

NextCalls ==
  \/ ValidateImage
  \/ Request
  \/ OptimizeUpload
  \/ RotateForSizes
  \/ GeneratePlaceholder
  \/ GeneratePlaceholderAgain
  \/ EnsurePlaceholder
  \/ EnsurePlaceholderAgain
  \/ DisplayImageUrl

SpecCalls == InitCalls /\ [][NextCalls]_vars

(* an upload that passes every check of validate_image but the one on the  *)
(* file size and the one on the pixel dimensions                           *)
WellFormed(f) ==
  /\ f.name.ext \in {"jpg", "JPG", "Jpg", "jpeg", "png", "PNG", "webp"}
  /\ f.format \in {"JPEG", "PNG", "WEBP"}

(***************************************************************************)
(* C12: validate_image accepts a file of exactly 5 MiB and rejects a       *)
(* larger one as too large; it accepts an image of exactly 4096 x 4096     *)
(* pixels and rejects one with 4097 on either axis for its dimensions.     *)
(***************************************************************************)
C12_LimitsInclusive ==
  call.fn = "validate_image" =>
    LET f == call.arg
        r == call.ret
    IN /\ f.size > 5242880 => (~r.ok /\ r.err = "too_large")
       /\ (/\ WellFormed(f) /\ f.size <= 5242880
           /\ f.width <= 4096 /\ f.height <= 4096) => r.ok
       /\ (/\ WellFormed(f) /\ f.size <= 5242880
           /\ (f.width >= 4097 \/ f.height >= 4097))
          => (~r.ok /\ r.err = "dimensions")

C12_Witness ==
  /\ call.fn = "validate_image"
  /\ call.arg.size = 5242880
  /\ call.arg.width = 4096 /\ call.arg.height = 4096
  /\ call.ret.ok

(***************************************************************************)
(* C13 as claimed: every upload whose extension, lower-cased, is not one   *)
(* of jpg, jpeg, png, webp is rejected with the unsupported-extension      *)
(* error.                                                                  *)
(***************************************************************************)
C13_ExtensionError ==
  (/\ call.fn = "validate_image"
   /\ call.arg.name.ext \notin {"jpg", "JPG", "Jpg", "jpeg", "png", "PNG", "webp"})
  => (~call.ret.ok /\ call.ret.err = "extension")

(***************************************************************************)
(* C13 amended: every such upload is rejected before its bytes are         *)
(* decoded: as too large when it is larger than 5 MiB, otherwise with the  *)
(* unsupported-extension error; and an upload with an allowed extension    *)
(* in any letter case is never given the extension error.                  *)
(***************************************************************************)
C13_ExtensionRejected ==
  call.fn = "validate_image" =>
    LET f == call.arg
        r == call.ret
    IN IF f.name.ext \in {"jpg", "JPG", "Jpg", "jpeg", "png", "PNG", "webp"}
       THEN r.err # "extension"
       ELSE /\ ~r.ok
            /\ r.err = IF f.size > 5242880 THEN "too_large" ELSE "extension"

C13_Witness ==
  /\ call.fn = "validate_image"
  /\ call.arg.name.ext = "gif"
  /\ call.arg.format = ""
  /\ call.ret.err = "extension"

C17_RotatedOnce ==
  /\ call.fn \in {"_smart_optimize_image", "create_multiple_sizes"}
       => call.twice = call.once
  /\ call.fn \in {"_smart_optimize_image", "create_multiple_sizes"} =>
       call.ret.turn = CASE call.arg.orientation = 3 -> 180
                         [] call.arg.orientation = 6 -> 270
                         [] call.arg.orientation = 8 -> 90
                         [] OTHER -> 0

C17_Witness ==
  /\ call.fn = "create_multiple_sizes"
  /\ call.from = "optimized"
  /\ call.arg.orientation = 6
  /\ call.arg.w = 3000 /\ call.arg.h = 2000
  /\ call.ret.turn = 270
  /\ call.ret.h > call.ret.w

(* a step of the try block of generate_placeholder_image raised *)
FellBack(size, env) ==
  \/ size[1] <= 0 \/ size[2] <= 0
  \/ env.fail \in {"create", "text", "border", "icon", "encode"}

(* the except clause of generate_placeholder_image raised *)
FallbackFailed(size, env) ==
  \/ size[1] <= 0 \/ size[2] <= 0
  \/ env.fallback_fails

C18_SameColour ==
  /\ (call.fn = "generate_placeholder_image" /\ ~call.ret.raised)
     => call.ret.background =
          <<"#E3F2FD", "#F3E5F5", "#E8F5E8", "#FFF3E0", "#FCE4EC", "#F1F8E9">>
            [(call.arg.color_index % 6) + 1]
  /\ (/\ call.fn = "generate_placeholder_image (again)"
      /\ ~call.first.ret.raised /\ ~call.ret.raised)
     => call.ret.background = call.first.ret.background
  /\ (/\ call.fn = "ensure_placeholder_exists (again)"
      /\ call.first.created /\ call.created)
     => call.placeholder.background = call.first.placeholder.background

(***************************************************************************)
(* C18 amended: the same three statements for calls in which no step of    *)
(* the drawing fails (otherwise the background is the one of the           *)
(* fallback, #F5F5F5), and, for the menu item, as long as the order of     *)
(* its category is the same: the colour is the one at that order mod 6,    *)
(* at 0 without a category.                                                *)
(***************************************************************************)
C18_SameColourUnlessFallback ==
  /\ (/\ call.fn = "generate_placeholder_image"
      /\ ~FellBack(call.arg.size, call.env))
     => /\ ~call.ret.raised
        /\ call.ret.background =
             <<"#E3F2FD", "#F3E5F5", "#E8F5E8", "#FFF3E0", "#FCE4EC",
               "#F1F8E9">>[(call.arg.color_index % 6) + 1]
  /\ (/\ call.fn = "generate_placeholder_image (again)"
      /\ ~FellBack(call.arg.size, call.first.env)
      /\ ~FellBack(call.arg.size, call.env))
     => /\ ~call.ret.raised
        /\ call.ret.background = call.first.ret.background
  /\ (/\ call.fn = "ensure_placeholder_exists (again)"
      /\ call.first.created /\ call.created
      /\ ~FellBack(<<400, 300>>, call.first.env)
      /\ ~FellBack(<<400, 300>>, call.env)
      /\ call.arg.category = call.first.arg.category)
     => /\ call.placeholder.background = call.first.placeholder.background
        /\ call.placeholder.background =
             <<"#E3F2FD", "#F3E5F5", "#E8F5E8", "#FFF3E0", "#FCE4EC",
               "#F1F8E9">>[(IF call.arg.category.has
                            THEN call.arg.category.order % 6 ELSE 0) + 1]

C18_Witness ==
  /\ call.fn = "ensure_placeholder_exists (again)"
  /\ call.first.created /\ call.created
  /\ call.arg.category = [has |-> TRUE, order |-> 8]
  /\ call.first.arg.category = call.arg.category
  /\ call.placeholder.background = "#E8F5E8"
  /\ call.first.placeholder.background = "#E8F5E8"

(***************************************************************************)
(* C20: has_image() is False for a menu item without image and for one     *)
(* whose image is a generated placeholder, and True for every menu item    *)
(* whose image is an uploaded photo, whatever the name of the file.        *)
(***************************************************************************)
C20_PlaceholderOrPhoto ==
  /\ (call.fn = "request" /\ call.ret = 200)
     => (call.has_image <=> image_of(call.arg) # NoUpload)
  /\ (/\ call.fn \in {"ensure_placeholder_exists",
                       "ensure_placeholder_exists (again)"}
      /\ call.arg.image = NoName)
     => ~call.has_image


(***************************************************************************)
(* C21: get_display_image_url(size) returns the URL of the requested size  *)
(* when the dictionary has it, otherwise that of the first of card,        *)
(* detail, original, thumbnail that it has, and None exactly when the      *)
(* menu item has no image URLs.                                            *)
(***************************************************************************)
C21_PreferredThenFallback ==
  call.fn = "get_display_image_url" =>
    LET keys == {e[1] : e \in call.image_urls}
        url(key) == (CHOOSE e \in call.image_urls : e[1] = key)[2]
    IN /\ call.ret.none <=> call.image_urls = {}
       /\ call.arg.size \in keys => call.ret.url = url(call.arg.size)
       /\ (call.arg.size \notin keys /\ "card" \in keys)
            => call.ret.url = url("card")
       /\ (call.arg.size \notin keys /\ "card" \notin keys /\ "detail" \in keys)
            => call.ret.url = url("detail")
       /\ (/\ call.arg.size \notin keys /\ "card" \notin keys
           /\ "detail" \notin keys /\ "original" \in keys)
            => call.ret.url = url("original")
       /\ (/\ call.arg.size \notin keys /\ {"card", "detail", "original"} \cap keys = {}
           /\ "thumbnail" \in keys)
            => call.ret.url = url("thumbnail")

C21_Witness ==
  /\ call.fn = "get_display_image_url"
  /\ call.arg.size = "card"
  /\ {e[1] : e \in call.image_urls} = {"original", "thumbnail", "detail"}
  /\ call.ret = [none |-> FALSE, url |-> [root |-> "photo_detail", ext |-> "jpg"]]


(***************************************************************************)
(* core: BusinessInfo.  A row is [pk, name]; an instance in memory is      *)
(* [pk, name, adding, force_insert], pk = 0 for None.                      *)
(***************************************************************************)
menu_vars == <<db, storage, generation, faulted, last, px>>

Procs == {1, 2}

MaxBusinessPk == 3

Idle == [pc |-> "idle"]

RowPks(rows) == {r.pk : r \in rows}

NextAutoPk(rows) ==
  IF rows = {} THEN 1
  ELSE (CHOOSE m \in RowPks(rows) : \A k \in RowPks(rows) : k <= m) + 1

(* Model.save(): UPDATE the row of the primary key when there is one and   *)
(* force_insert is not set, INSERT otherwise; an INSERT of a primary key   *)
(* in use is an IntegrityError                                             *)
Model_save(rows, instance) ==
  IF instance.pk # 0 /\ ~instance.force_insert /\ instance.pk \in RowPks(rows)
  THEN [rows |-> {r \in rows : r.pk # instance.pk} \cup
                 {[pk |-> instance.pk, name |-> instance.name]},
        pk |-> instance.pk, raised |-> FALSE, err |-> ""]
  ELSE IF instance.pk \in RowPks(rows)
  THEN [rows |-> rows, pk |-> instance.pk, raised |-> TRUE,
        err |-> "IntegrityError"]
  ELSE LET pk == IF instance.pk # 0 THEN instance.pk ELSE NextAutoPk(rows)
       IN [rows |-> rows \cup {[pk |-> pk, name |-> instance.name]},
           pk |-> pk, raised |-> FALSE, err |-> ""]

BusinessInfo_refused(instance, rows) == instance.pk = 0 /\ rows # {}

(* instances a request can save: a new one, with or without a primary      *)
(* key, through save() or objects.create(); a row loaded and edited        *)
BusinessInstances(rows) ==
  {[pk |-> pk, name |-> n, adding |-> TRUE, force_insert |-> fi] :
     pk \in 0..MaxBusinessPk, n \in {"White Raven", "Raven"},
     fi \in BOOLEAN} \cup
  {[pk |-> r.pk, name |-> n, adding |-> FALSE, force_insert |-> FALSE] :
     r \in rows, n \in {"White Raven", "Raven"}}

InitTables ==
  /\ db = [pk \in Pks |-> NewRow]
  /\ storage = EmptyFs
  /\ generation = 0
  /\ faulted = 0
  /\ last = History(Outcome("init", 1, FALSE, "", db, NoProcess(Start(EmptyFs)),
                            NoName),
                    EmptyFs, [pk \in Pks |-> NewRow], 0)
  /\ px = NoPx
  /\ call = NoCall
  /\ tables = NoTables
  /\ cache = EmptyCache
  /\ procs = NoProcs
  /\ clock = 0

(* save(): raise ValueError, or the save of the framework *)
BusinessInfoSave ==
  /\ \E instance \in BusinessInstances(tables.BusinessInfo) :
       LET rows == tables.BusinessInfo
           out == Model_save(rows, instance)
       IN /\ instance.pk = 0 => NextAutoPk(rows) <= MaxBusinessPk
          /\ IF BusinessInfo_refused(instance, rows)
             THEN /\ call' = [fn |-> "BusinessInfo.save",
                              instance |-> instance, before |-> rows,
                              raised |-> TRUE, err |-> "ValueError"]
                  /\ UNCHANGED tables
             ELSE /\ call' = [fn |-> "BusinessInfo.save",
                              instance |-> instance, before |-> rows,
                              raised |-> out.raised, err |-> out.err]
                  /\ tables' = [tables EXCEPT !.BusinessInfo = out.rows]
  /\ UNCHANGED <<menu_vars, cache, procs, clock>>

SpecBusiness == InitTables /\ [][BusinessInfoSave]_vars

(***************************************************************************)
(* C22: there is at most one BusinessInfo row; a save of a new instance    *)
(* that began while a row existed raised ValueError and left the row as    *)
(* it was; a save of the existing instance succeeds.                       *)
(***************************************************************************)
C22_Singleton ==
  /\ Cardinality(tables.BusinessInfo) <= 1
  /\ (/\ call.fn = "BusinessInfo.save"
      /\ call.instance.adding /\ call.before # {})
     => call.raised /\ call.err = "ValueError"
  /\ (call.fn = "BusinessInfo.save" /\ ~call.instance.adding)
     => ~call.raised


(***************************************************************************)
(* menu: the slug of MenuItem.save, for saves without an upload.  The      *)
(* instance is [pk, name, slug], pk = 0 for one not yet saved.  The loop   *)
(* over MenuItem.objects.filter(slug=slug) and the save of the framework   *)
(* are separate statements; the column is unique, so the INSERT or UPDATE  *)
(* of a slug that another row holds is an IntegrityError.                  *)
(***************************************************************************)
MaxSlugItems == 3

MenuItemInstances(d) ==
  {[pk |-> 0, name |-> n, slug |-> s] :
     n \in {"Latte", "Iced Mocha"}, s \in {"", "latte", "latte-1"}} \cup
  {[pk |-> pk, name |-> n, slug |-> d[pk].slug] :
     pk \in {q \in DOMAIN d : d[q].state = "live"},
     n \in {"Latte", "Iced Mocha"}}

FreePks(d) == {q \in DOMAIN d : d[q].state = "new"}

(* the slug generated whether or not one is set *)
assigned_slug_always(instance, others) ==
  unique_slug(slugify(instance.name), 0, others)

(* self.slug after lines 192-200 *)
assigned_slug(instance, others) ==
  IF instance.slug # "" THEN instance.slug
  ELSE unique_slug(slugify(instance.name), 0, others)

InitSlugs ==
  /\ db = [pk \in 1..MaxSlugItems |-> NewRow]
  /\ storage = EmptyFs
  /\ generation = 0
  /\ faulted = 0
  /\ last = History(Outcome("init", 1, FALSE, "", db, NoProcess(Start(EmptyFs)),
                            NoName),
                    EmptyFs, [pk \in 1..MaxSlugItems |-> NewRow], 0)
  /\ px = NoPx
  /\ call = NoCall
  /\ tables = NoTables
  /\ cache = EmptyCache
  /\ procs = [p \in Procs |-> Idle]
  /\ clock = 0

(* if not self.slug: ... self.slug = slug *)
MenuItemSlug(p) ==
  /\ procs[p] = Idle
  /\ \E instance \in MenuItemInstances(db) :
       LET others == {db[q].slug :
                        q \in {r \in DOMAIN db \ {instance.pk} :
                                 db[r].state = "live"}}
           slug == assigned_slug(instance, others)
       IN /\ instance.pk = 0 => FreePks(db) # {}
          /\ procs' = [procs EXCEPT ![p] =
                         [pc |-> "super_save", instance |-> instance,
                          slug |-> slug, taken |-> others]]
  /\ UNCHANGED <<db, storage, generation, faulted, last, px, call, tables,
                 cache, clock>>

(* super().save() of an item without upload *)
MenuItemSuperSave(p) ==
  /\ procs[p].pc = "super_save"
  /\ "slug" \in DOMAIN procs[p]
  /\ LET instance == procs[p].instance
         slug == procs[p].slug
         gone == instance.pk # 0 /\ db[instance.pk].state # "live"
         pk == IF instance.pk # 0 THEN instance.pk
               ELSE CHOOSE q \in FreePks(db) : \A r \in FreePks(db) : q <= r
         IntegrityError == slug \in LiveSlugs(db, pk)
     IN /\ instance.pk = 0 => FreePks(db) # {}
        /\ db' = IF IntegrityError THEN db
                 ELSE [db EXCEPT ![pk] = [state |-> "live",
                                          name |-> instance.name,
                                          slug |-> slug, image |-> @.image]]
        /\ call' = [fn |-> "MenuItem.save", proc |-> p, instance |-> instance,
                    pk |-> pk, slug |-> slug, taken |-> procs[p].taken,
                    raised |-> IntegrityError,
                    err |-> IF IntegrityError THEN "IntegrityError" ELSE ""]
  /\ procs' = [procs EXCEPT ![p] = Idle]
  /\ UNCHANGED <<storage, generation, faulted, last, px, tables, cache, clock>>

NextSlugs ==
  \/ \E p \in Procs : MenuItemSlug(p)
  \/ \E p \in Procs : MenuItemSuperSave(p)

SpecSlugs == InitSlugs /\ [][NextSlugs]_vars

(***************************************************************************)
(* C23: a save of a menu item without slug assigns slugify(name) when no   *)
(* other item has it, otherwise the first of base-1, base-2, ... that no   *)
(* other item has; a save never changes a slug that is set; the slugs of   *)
(* the menu items are pairwise distinct.                                   *)
(***************************************************************************)
C23_UniqueSlugs ==
  /\ \A q, r \in {x \in DOMAIN db : db[x].state = "live"} :
       q # r => db[q].slug # db[r].slug
  /\ (call.fn = "MenuItem.save" /\ call.instance.slug = "") =>
       LET base == IF call.instance.name = "Latte" THEN "latte"
                   ELSE "iced-mocha"
           nth(k) == base \o "-" \o ToString(k)
       IN IF base \notin call.taken THEN call.slug = base
          ELSE \E k \in 1..(MaxSlugItems + 2) :
                 /\ call.slug = nth(k)
                 /\ nth(k) \notin call.taken
                 /\ \A j \in 1..(k - 1) : nth(j) \in call.taken
  /\ (call.fn = "MenuItem.save" /\ call.instance.slug # "") =>
       /\ call.slug = call.instance.slug
       /\ ~call.raised => db[call.pk].slug = call.instance.slug

C23_Witness ==
  /\ call.fn = "MenuItem.save"
  /\ ~call.raised
  /\ call.instance = [pk |-> 0, name |-> "Latte", slug |-> ""]
  /\ call.taken = {"latte", "latte-1"}
  /\ call.slug = "latte-2"
  /\ db[call.pk].slug = "latte-2"


(***************************************************************************)
(* staff: Employee.save.  A row is [employee_id, state]; a deleted row     *)
(* is kept with state "deleted" so that the numbers issued before stay     *)
(* visible to the properties (the program does not see them).  Strings     *)
(* are ordered as the database orders them, by the code of their           *)
(* characters.                                                             *)
(***************************************************************************)
Alphabet == "0123456789ABCDEFGHIJKLMNOPQRSTUVWXYZ"

Ord(ch) == CHOOSE i \in 1..Len(Alphabet) : SubSeq(Alphabet, i, i) = ch

(* a < b in the order of order_by('employee_id') *)
RECURSIVE StrLess(_, _)
StrLess(a, b) ==
  IF b = "" THEN FALSE
  ELSE IF a = "" THEN TRUE
  ELSE IF SubSeq(a, 1, 1) # SubSeq(b, 1, 1)
  THEN Ord(SubSeq(a, 1, 1)) < Ord(SubSeq(b, 1, 1))
  ELSE StrLess(SubSeq(a, 2, Len(a)), SubSeq(b, 2, Len(b)))

startswith(s, prefix) ==
  Len(s) >= Len(prefix) /\ SubSeq(s, 1, Len(prefix)) = prefix

(* s[-3:] *)
last3(s) == IF Len(s) <= 3 THEN s ELSE SubSeq(s, Len(s) - 2, Len(s))

(* int(s) of a string of letters and digits: ValueError unless all digits *)
IsInt(s) == s # "" /\ \A i \in 1..Len(s) : Ord(SubSeq(s, i, i)) <= 10

RECURSIVE int(_)
int(s) ==
  IF s = "" THEN 0
  ELSE 10 * int(SubSeq(s, 1, Len(s) - 1)) + (Ord(SubSeq(s, Len(s), Len(s))) - 1)

(* f'{n:03d}' *)
format03d(n) ==
  IF n < 10 THEN "00" \o ToString(n)
  ELSE IF n < 100 THEN "0" \o ToString(n)
  ELSE ToString(n)

LiveIds(rows) == {r.employee_id : r \in {x \in rows : x.state = "live"}}

(* the employee_id the instance has when super().save() is reached *)
generated_employee_id(rows, year) ==
  LET prefix == "EMP" \o ToString(year)
      matching == {id \in LiveIds(rows) : startswith(id, prefix)}
      last_emp == CHOOSE id \in matching :
                    \A other \in matching \ {id} : StrLess(other, id)
      new_num == IF matching = {} THEN 1
                 ELSE IF IsInt(last3(last_emp)) THEN int(last3(last_emp)) + 1
                 ELSE 1
  IN prefix \o format03d(new_num)

(* Employee.save of a new employee; the column is unique *)
Employee_save(rows, year, employee_id) ==
  LET id == IF employee_id # "" THEN employee_id
            ELSE generated_employee_id(rows, year)
  IN IF id \in LiveIds(rows)
     THEN [rows |-> rows, employee_id |-> id, raised |-> TRUE]
     ELSE [rows |-> rows \cup {[employee_id |-> id, state |-> "live"]},
           employee_id |-> id, raised |-> FALSE]

MaxEmployees == 3

MaxDeletions == 2

CreateEmployee ==
  /\ Cardinality(LiveIds(tables.Employee)) < MaxEmployees
  /\ \E year \in {2023, 2024},
        employee_id \in {"", "CUSTOM001", "EMP2024998", "EMP2024ABC"} :
       LET out == Employee_save(tables.Employee, year, employee_id)
       IN /\ tables' = [tables EXCEPT !.Employee = out.rows]
          /\ call' = [fn |-> "Employee.save", year |-> year,
                      supplied |-> employee_id, before |-> tables.Employee,
                      employee_id |-> out.employee_id, raised |-> out.raised]
  /\ UNCHANGED <<menu_vars, cache, procs, clock>>

DeleteEmployee ==
  /\ Cardinality({r \in tables.Employee : r.state = "deleted"}) < MaxDeletions
  /\ \E id \in LiveIds(tables.Employee) :
       /\ tables' = [tables EXCEPT !.Employee =
                       (@ \ {[employee_id |-> id, state |-> "live"]}) \cup
                       {[employee_id |-> id, state |-> "deleted"]}]
       /\ call' = [fn |-> "Employee.delete", employee_id |-> id]
  /\ UNCHANGED <<menu_vars, cache, procs, clock>>

NextStaff == CreateEmployee \/ DeleteEmployee

SpecStaff == InitTables /\ [][NextStaff]_vars

(***************************************************************************)
(* C24: an employee created without employee_id gets EMP, the year of      *)
(* hire and the number after the highest one issued for that year so far   *)
(* (001 for the first), in three digits; a supplied employee_id is kept;   *)
(* every creation whose employee_id is generated succeeds, with an         *)
(* employee_id that no existing employee has.                              *)
(***************************************************************************)
C24_NextSequenceNumber ==
  call.fn = "Employee.save" =>
    LET prefix == "EMP" \o ToString(call.year)
        issued == {SubSeq(r.employee_id, 8, 10) :
                     r \in {x \in call.before :
                              /\ Len(x.employee_id) = 10
                              /\ SubSeq(x.employee_id, 1, 7) = prefix
                              /\ \A i \in 8..10 :
                                   SubSeq(x.employee_id, i, i) \in
                                     {"0", "1", "2", "3", "4", "5", "6", "7",
                                      "8", "9"}}}
        number(s) == CHOOSE n \in 0..999 :
                       s = (IF n < 10 THEN "00" ELSE IF n < 100 THEN "0" ELSE "")
                             \o ToString(n)
        highest == IF issued = {} THEN 0
                   ELSE CHOOSE n \in {number(s) : s \in issued} :
                          \A s \in issued : number(s) <= n
    IN /\ call.supplied # "" => call.employee_id = call.supplied
       /\ call.supplied = "" =>
            /\ ~call.raised
            /\ call.employee_id \notin
                 {r.employee_id : r \in {x \in call.before : x.state = "live"}}
            /\ highest < 999 =>
                 call.employee_id =
                   prefix \o (IF highest + 1 < 10 THEN "00"
                              ELSE IF highest + 1 < 100 THEN "0" ELSE "")
                          \o ToString(highest + 1)


(***************************************************************************)
(* staff: Schedule.clean.  A shift is [pk, employee, date, start_time,     *)
(* end_time, shift_type], times in hours of the day, pk = 0 for a shift    *)
(* not yet saved.  The form validates with clean() and saves the shift     *)
(* when clean() did not raise; (employee, date, start_time) is unique.     *)
(***************************************************************************)
MaxShifts == 2

(* employee 1 may open the store, employee 2 may not *)
can_open(employee) == employee = 1

times_overlap(a, b) ==
  a.start_time < b.end_time /\ a.end_time > b.start_time

Schedule_clean(self, rows) ==
  LET overlapping == {r \in rows : /\ r.employee = self.employee
                                   /\ r.date = self.date
                                   /\ r.pk # self.pk}
  IN IF \E shift \in overlapping : times_overlap(self, shift)
     THEN [raised |-> TRUE, err |-> "overlaps"]
     ELSE IF self.shift_type = "opening" /\ ~can_open(self.employee)
     THEN [raised |-> TRUE, err |-> "not authorized"]
     ELSE [raised |-> FALSE, err |-> ""]

(* a new shift, or a saved one with other times *)
ShiftInstances(rows) ==
  {[pk |-> 0, employee |-> e, date |-> d, start_time |-> s, end_time |-> t,
    shift_type |-> ty] :
     e \in {1, 2}, d \in {1, 2}, s \in {2, 12, 23}, t \in {2, 12, 23},
     ty \in {"mid", "opening"}} \cup
  {[r EXCEPT !.start_time = s, !.end_time = t] :
     r \in rows, s \in {2, 12, 23}, t \in {2, 12, 23}}

(* clean(), then save() when it did not raise and the shift is unique *)
SaveShift ==
  /\ \E self \in ShiftInstances(tables.Schedule) :
       LET rows == tables.Schedule
           out == Schedule_clean(self, rows)
           pk == IF self.pk # 0 THEN self.pk ELSE NextAutoPk(rows)
           duplicate == \E r \in rows : /\ r.pk # self.pk
                                        /\ r.employee = self.employee
                                        /\ r.date = self.date
                                        /\ r.start_time = self.start_time
       IN /\ pk <= MaxShifts
          /\ call' = [fn |-> "Schedule.clean", self |-> self, before |-> rows,
                      raised |-> out.raised, err |-> out.err]
          /\ tables' = IF out.raised \/ duplicate THEN tables
                       ELSE [tables EXCEPT !.Schedule =
                               {r \in rows : r.pk # pk} \cup
                               {[self EXCEPT !.pk = pk]}]
  /\ UNCHANGED <<menu_vars, cache, procs, clock>>

DeleteShift ==
  /\ \E r \in tables.Schedule :
       /\ tables' = [tables EXCEPT !.Schedule = @ \ {r}]
       /\ call' = [fn |-> "Schedule.delete", pk |-> r.pk]
  /\ UNCHANGED <<menu_vars, cache, procs, clock>>

NextSchedule == SaveShift \/ DeleteShift

SpecSchedule == InitTables /\ [][NextSchedule]_vars

(***************************************************************************)
(* C25: clean() raises for an overlap whenever another shift of the same   *)
(* employee on the same date overlaps the shift in time, a shift whose     *)
(* end is not after its start running into the next day; and it raises     *)
(* for an overlap only then (not for other employees, other dates or       *)
(* shifts that only touch).                                                *)
(***************************************************************************)
C25_OverlapRejected ==
  call.fn = "Schedule.clean" =>
    LET until(s) == IF s.end_time > s.start_time THEN s.end_time
                    ELSE s.end_time + 24
        clash == \E r \in call.before :
                   /\ r.pk # call.self.pk
                   /\ r.employee = call.self.employee
                   /\ r.date = call.self.date
                   /\ call.self.start_time < until(r)
                   /\ r.start_time < until(call.self)
    IN /\ clash => call.raised
       /\ call.err = "overlaps" <=> clash


(***************************************************************************)
(* core: SiteTheme.  A row is [pk, name, is_active]; an instance has       *)
(* pk = 0 until it is saved.                                               *)
(***************************************************************************)
MaxThemes == 3

ActiveThemes(rows) == {r \in rows : r.is_active}

(* filter(is_active=True).update(is_active=False) *)
deactivate_all(rows) == {[r EXCEPT !.is_active = FALSE] : r \in rows}

(* INSERT, or UPDATE of the row of the primary key *)
upsert(rows, instance) ==
  LET pk == IF instance.pk # 0 THEN instance.pk ELSE NextAutoPk(rows)
  IN [rows |-> {r \in rows : r.pk # pk} \cup {[instance EXCEPT !.pk = pk]},
      pk |-> pk]

(* save() without the update of the other themes *)
SiteTheme_save_keep_others(rows, instance) == upsert(rows, instance)

SiteTheme_save(rows, instance) ==
  IF instance.is_active THEN upsert(deactivate_all(rows), instance)
  ELSE upsert(rows, instance)

(* .first() of a queryset ordered by -created_at: the row created last *)
first(rows) == CHOOSE r \in rows : \A o \in rows : o.pk <= r.pk

get_active_theme(rows) ==
  LET created == SiteTheme_save(rows, [pk |-> 0,
                                       name |-> "Default White Raven Theme",
                                       is_active |-> TRUE])
  IN IF ActiveThemes(rows) # {}
     THEN [rows |-> rows, ret |-> first(ActiveThemes(rows)),
           created |-> FALSE]
     ELSE [rows |-> created.rows,
           ret |-> CHOOSE r \in created.rows : r.pk = created.pk,
           created |-> TRUE]

(* SiteThemeAdmin.activate_theme(request, queryset) *)
activate_theme(rows, queryset) ==
  IF Cardinality(queryset) # 1 THEN rows
  ELSE SiteTheme_save(deactivate_all(rows),
                      [first(queryset) EXCEPT !.is_active = TRUE]).rows

ThemeInstances(rows) ==
  {[pk |-> 0, name |-> n, is_active |-> a] :
     n \in {"White Raven Theme", "Dark Roast"}, a \in BOOLEAN} \cup
  {[r EXCEPT !.is_active = a] : r \in rows, a \in BOOLEAN}

SaveTheme ==
  /\ \E instance \in ThemeInstances(tables.SiteTheme) :
       LET out == SiteTheme_save(tables.SiteTheme, instance)
       IN /\ out.pk <= MaxThemes
          /\ tables' = [tables EXCEPT !.SiteTheme = out.rows]
          /\ call' = [fn |-> "SiteTheme.save", instance |-> instance,
                      pk |-> out.pk, before |-> tables.SiteTheme]
  /\ UNCHANGED <<menu_vars, cache, procs, clock>>

ActivateTheme ==
  /\ \E queryset \in SUBSET tables.SiteTheme :
       /\ tables' = [tables EXCEPT !.SiteTheme = activate_theme(@, queryset)]
       /\ call' = [fn |-> "activate_theme", queryset |-> queryset,
                   before |-> tables.SiteTheme]
  /\ UNCHANGED <<menu_vars, cache, procs, clock>>

GetActiveTheme ==
  /\ LET out == get_active_theme(tables.SiteTheme)
     IN /\ out.ret.pk <= MaxThemes
        /\ tables' = [tables EXCEPT !.SiteTheme = out.rows]
        /\ call' = [fn |-> "get_active_theme", ret |-> out.ret,
                    created |-> out.created, before |-> tables.SiteTheme]
  /\ UNCHANGED <<menu_vars, cache, procs, clock>>

NextTheme == SaveTheme \/ ActivateTheme \/ GetActiveTheme

SpecTheme == InitTables /\ [][NextTheme]_vars

(***************************************************************************)
(* C26: at most one theme is active; after a save of a theme with          *)
(* is_active = True no other theme is active; after activate_theme of one  *)
(* theme that theme and no other is active; get_active_theme returns a     *)
(* stored theme that is active, the one that was active before the call    *)
(* if there was one and a newly created one otherwise.                     *)
(***************************************************************************)
C26_OneActiveTheme ==
  LET active == {r \in tables.SiteTheme : r.is_active}
  IN /\ Cardinality(active) <= 1
     /\ (call.fn = "SiteTheme.save" /\ call.instance.is_active)
        => {r.pk : r \in active} = {call.pk}
     /\ (call.fn = "activate_theme" /\ Cardinality(call.queryset) = 1)
        => {r.pk : r \in active} = {r.pk : r \in call.queryset}
     /\ call.fn = "get_active_theme"
        => /\ call.ret.is_active
           /\ call.ret \in tables.SiteTheme
           /\ call.created <=> ~\E r \in call.before : r.is_active
           /\ ~call.created => (call.ret \in call.before
                                /\ tables.SiteTheme = call.before)
           /\ call.created => call.ret.pk \notin {r.pk : r \in call.before}

C26_Witness ==
  /\ call.fn = "SiteTheme.save"
  /\ call.instance.is_active
  /\ \E r \in call.before : r.is_active /\ r.pk # call.pk
  /\ Cardinality(tables.SiteTheme) = 3
  /\ {r.pk : r \in {x \in tables.SiteTheme : x.is_active}} = {call.pk}


(***************************************************************************)
(* core: the rate limit of SecurityMiddleware.  clock is time.time() in    *)
(* seconds.  The cache maps a key to [value, expires]; process_request     *)
(* reads the list of the key, and, when the request is admitted, writes    *)
(* the list back with the time of the request appended: two statements,    *)
(* between which the other requests being handled run.  call.log is the    *)
(* history of the responses, [key, time, status].                          *)
(***************************************************************************)
MaxRequests == 4

MaxClock == 60

ClockStep == 30

RateSettings ==
  [RATE_LIMIT_LOGIN |-> 5, RATE_LIMIT_CONTACT |-> 3, RATE_LIMIT_GENERAL |-> 60]

RateRequests ==
  {[path |-> "/contact/", method |-> "POST", ip |-> "10.0.0.1"],
   [path |-> "/contact/", method |-> "POST", ip |-> "10.0.0.2"],
   [path |-> "/contact/", method |-> "GET", ip |-> "10.0.0.1"],
   [path |-> "/admin/login/", method |-> "POST", ip |-> "10.0.0.1"]}

request_class(request) ==
  IF startswith(request.path, "/admin/login/") THEN "login"
  ELSE IF startswith(request.path, "/contact/") /\ request.method = "POST"
  THEN "contact"
  ELSE "general"

rate_limit(request) ==
  CASE request_class(request) = "login" -> RateSettings.RATE_LIMIT_LOGIN
    [] request_class(request) = "contact" -> RateSettings.RATE_LIMIT_CONTACT
    [] OTHER -> RateSettings.RATE_LIMIT_GENERAL

cache_key(request) ==
  "rate_limit_" \o request_class(request) \o "_" \o request.ip

(* cache.get(key, []) at time now *)
cache_get(c, key, now) ==
  IF key \in DOMAIN c /\ now < c[key].expires THEN c[key].value ELSE <<>>

(* cache.set(key, value, timeout) at time now *)
cache_set(c, key, value, timeout, now) ==
  [k \in DOMAIN c \cup {key} |->
     IF k = key THEN [value |-> value, expires |-> now + timeout] ELSE c[k]]

(* [req_time for req_time in requests if current_time - req_time < 60] *)
recent(requests, current_time) ==
  SelectSeq(requests, LAMBDA req_time : current_time - req_time < 60)

Responded(key, time, status) ==
  [fn |-> "process_request",
   log |-> Append(IF call = NoCall THEN <<>> ELSE call.log,
                  [key |-> key, time |-> time, status |-> status])]

InitRate ==
  /\ db = [pk \in Pks |-> NewRow]
  /\ storage = EmptyFs
  /\ generation = 0
  /\ faulted = 0
  /\ last = History(Outcome("init", 1, FALSE, "", db, NoProcess(Start(EmptyFs)),
                            NoName),
                    EmptyFs, [pk \in Pks |-> NewRow], 0)
  /\ px = NoPx
  /\ call = NoCall
  /\ tables = NoTables
  /\ cache = EmptyCache
  /\ procs = [p \in Procs |-> Idle]
  /\ clock = 0

(* is_rate_limited up to the test of the limit *)
RateLimitGet(p) ==
  /\ procs[p] = Idle
  /\ Len(IF call = NoCall THEN <<>> ELSE call.log)
       + Cardinality({q \in Procs : procs[q] # Idle})
       < MaxRequests
  /\ \E request \in RateRequests :
       LET current_time == clock
           requests == recent(cache_get(cache, cache_key(request), clock),
                              current_time)
       IN IF Len(requests) >= rate_limit(request)
          THEN /\ call' = Responded(cache_key(request), current_time, 429)
               /\ UNCHANGED procs
          ELSE /\ procs' = [procs EXCEPT ![p] =
                              [pc |-> "cache_set", key |-> cache_key(request),
                               requests |-> requests,
                               current_time |-> current_time]]
               /\ UNCHANGED call
  /\ UNCHANGED <<menu_vars, tables, cache, clock>>

(* requests.append(current_time); cache.set(cache_key, requests, 60) *)
RateLimitSet(p) ==
  /\ procs[p].pc = "cache_set"
  /\ cache' = cache_set(cache, procs[p].key,
                        Append(procs[p].requests, procs[p].current_time), 60,
                        clock)
  /\ call' = Responded(procs[p].key, procs[p].current_time, 200)
  /\ procs' = [procs EXCEPT ![p] = Idle]
  /\ UNCHANGED <<menu_vars, tables, clock>>

Tick ==
  /\ clock + ClockStep <= MaxClock
  /\ clock' = clock + ClockStep
  /\ UNCHANGED <<menu_vars, call, tables, cache, procs>>

NextRate ==
  \/ \E p \in Procs : RateLimitGet(p)
  \/ \E p \in Procs : RateLimitSet(p)
  \/ Tick

SpecRate == InitRate /\ [][NextRate]_vars

(***************************************************************************)
(* C27: for every key, at most limit requests (login 5, contact 3, other   *)
(* 60) are admitted within any window of 60 seconds; a request answered    *)
(* with 429 is not recorded; the list of a key holds times of admitted     *)
(* requests of that key only.                                              *)
(***************************************************************************)
C27_AtMostLimitPerWindow ==
  LET log == IF call = NoCall THEN <<>> ELSE call.log
      limit(key) == IF SubSeq(key, 1, 17) = "rate_limit_login_" THEN 5
                    ELSE IF SubSeq(key, 1, 19) = "rate_limit_contact_" THEN 3
                    ELSE 60
      admitted(key, from) ==
        {i \in 1..Len(log) : /\ log[i].key = key /\ log[i].status = 200
                             /\ log[i].time >= from /\ log[i].time < from + 60}
  IN /\ \A i \in 1..Len(log) :
          Cardinality(admitted(log[i].key, log[i].time)) <= limit(log[i].key)
     /\ \A key \in DOMAIN cache :
          \A j \in 1..Len(cache[key].value) :
            \E i \in 1..Len(log) : /\ log[i].key = key /\ log[i].status = 200
                                   /\ log[i].time = cache[key].value[j]


(***************************************************************************)
(* C30: storage holds at most one placeholder file per menu item, and a    *)
(* call of ensure_placeholder_exists for an item that has an image writes  *)
(* no placeholder and leaves the image of the item as it is.               *)
(***************************************************************************)
C30_PlaceholdersDoNotAccumulate ==
  /\ \A pk \in Pks :
       Cardinality({n \in DOMAIN storage :
                      storage[n].kind = "placeholder" /\ storage[n].pk = pk})
         <= 1
  /\ (/\ call.fn \in {"ensure_placeholder_exists",
                      "ensure_placeholder_exists (again)"}
      /\ call.arg.image # NoName)
     => ~call.created /\ call.image = call.arg.image

====
